---- MODULE Spec2Model ----
(***************************************************************************)
(* Model of the lexical identity and cross-reference pipeline:             *)
(*   tools/add_lex_ids_and_build_index.py   (ID assigner + index builder)  *)
(*   tools/validate_ruleset_integrity.py    (integrity validator)          *)
(*   tools/conjugation/extract_conjugation_tables.py   (table extractor)   *)
(*   tools/conjugation/dedupe_conjugation_tables.py    (deduplicator)      *)
(*   tools/link_conjugation_tables_to_lexicon.py       (linker)            *)
(* Strings are sequences of one-character strings, so that strip, upper,   *)
(* split and the regular-expression substitutions are computed character   *)
(* by character as the code computes them.                                 *)
(***************************************************************************)
EXTENDS Integers, Sequences, FiniteSets, Bags, TLC

(***************************************************************************)
(* Bounds of the model.                                                    *)
(***************************************************************************)
\* Largest number of items over all managed partitions together.
MaxItems == 3
\* Largest number of rule documents the validator scans.
MaxDocs == 2
\* Largest nesting depth of a reference inside a rule document.
MaxDepth == 2

(***************************************************************************)
(* Characters and Python's str methods.                                    *)
(***************************************************************************)
LowerLetters == <<"a","b","c","d","e","f","g","h","i","j","k","l","m",
                  "n","o","p","q","r","s","t","u","v","w","x","y","z">>
UpperLetters == <<"A","B","C","D","E","F","G","H","I","J","K","L","M",
                  "N","O","P","Q","R","S","T","U","V","W","X","Y","Z">>
DigitChars == <<"0","1","2","3","4","5","6","7","8","9">>

\* Code-point order of the characters the model uses (str comparison).
CodePointOrder == <<"\t", " ", "-", ".">> \o DigitChars \o UpperLetters \o <<"_">>
                    \o LowerLetters \o <<"Ä","Ö","Ü","ß","ä","ö","ü">>

Chars == { CodePointOrder[i] : i \in 1..Len(CodePointOrder) }

IndexOf(seq, c) == IF \E i \in 1..Len(seq) : seq[i] = c
                   THEN CHOOSE i \in 1..Len(seq) : seq[i] = c
                   ELSE 0

\* ord(c), up to the order it induces on the model's characters.
OrdTable == [c \in Chars |-> IndexOf(CodePointOrder, c)]
Ord(c) == OrdTable[c]

IsSpace(c) == c \in {" ", "\t"}

UpperTable == [c \in Chars |-> IF IndexOf(LowerLetters, c) > 0
                               THEN UpperLetters[IndexOf(LowerLetters, c)]
                               ELSE IF c = "ä" THEN "Ä" ELSE IF c = "ö" THEN "Ö"
                               ELSE IF c = "ü" THEN "Ü" ELSE c]
UpperChar(c) == UpperTable[c]

LowerTable == [c \in Chars |-> IF IndexOf(UpperLetters, c) > 0
                               THEN LowerLetters[IndexOf(UpperLetters, c)]
                               ELSE IF c = "Ä" THEN "ä" ELSE IF c = "Ö" THEN "ö"
                               ELSE IF c = "Ü" THEN "ü" ELSE c]
LowerChar(c) == LowerTable[c]

\* str.upper() / str.lower() ("ß" is translated by UMLAUT_MAP before any upper()).
Upper(s) == [i \in 1..Len(s) |-> UpperChar(s[i])]
Lower(s) == [i \in 1..Len(s) |-> LowerChar(s[i])]

RECURSIVE LStripSet(_, _)
LStripSet(s, cs) == IF s # <<>> /\ Head(s) \in cs THEN LStripSet(Tail(s), cs) ELSE s

RECURSIVE RStripSet(_, _)
RStripSet(s, cs) == IF s # <<>> /\ s[Len(s)] \in cs
                    THEN RStripSet(SubSeq(s, 1, Len(s) - 1), cs)
                    ELSE s

\* str.strip() and str.strip(".")
Strip(s) == RStripSet(LStripSet(s, {" ", "\t"}), {" ", "\t"})
StripDots(s) == RStripSet(LStripSet(s, {"."}), {"."})

\* str.split(): the maximal runs of non-whitespace characters.
RECURSIVE SplitAcc(_, _, _)
SplitAcc(s, cur, acc) ==
    IF s = <<>> THEN (IF cur = <<>> THEN acc ELSE Append(acc, cur))
    ELSE IF IsSpace(Head(s))
         THEN SplitAcc(Tail(s), <<>>, IF cur = <<>> THEN acc ELSE Append(acc, cur))
         ELSE SplitAcc(Tail(s), Append(cur, Head(s)), acc)
Split(s) == SplitAcc(s, <<>>, <<>>)

\* " ".join(parts)
RECURSIVE JoinSpace(_)
JoinSpace(parts) == IF parts = <<>> THEN <<>>
                    ELSE IF Len(parts) = 1 THEN parts[1]
                    ELSE parts[1] \o <<" ">> \o JoinSpace(Tail(parts))

\* Decimal digits of a natural number, as str(n) gives them.
RECURSIVE DecStr(_)
DecStr(n) == IF n < 10 THEN <<DigitChars[n + 1]>>
             ELSE DecStr(n \div 10) \o <<DigitChars[(n % 10) + 1]>>

\* Lexicographic order on strings by code point: a < b.
RECURSIVE StrLess(_, _)
StrLess(a, b) == IF b = <<>> THEN FALSE
                 ELSE IF a = <<>> THEN TRUE
                 ELSE IF Head(a) = Head(b) THEN StrLess(Tail(a), Tail(b))
                 ELSE Ord(Head(a)) < Ord(Head(b))

(***************************************************************************)
(* add_lex_ids_and_build_index.py: constants.                              *)
(***************************************************************************)
NOUNS == <<"n","o","u","n","s",".","y","a","m","l">>
VERBS == <<"v","e","r","b","s",".","y","a","m","l">>
\* The managed partitions, in processing order (the first two of the list).
MANAGED_FILES == <<NOUNS, VERBS>>

ARTICLES == { <<"d","e","r">>, <<"d","i","e">>, <<"d","a","s">> }

\* UMLAUT_MAP, applied by str.translate.
UmlautChar(c) == IF c \in {"ä", "Ä"} THEN <<"A","E">>
                 ELSE IF c \in {"ö", "Ö"} THEN <<"O","E">>
                 ELSE IF c \in {"ü", "Ü"} THEN <<"U","E">>
                 ELSE IF c = "ß" THEN <<"S","S">>
                 ELSE <<c>>
RECURSIVE Translate(_)
Translate(s) == IF s = <<>> THEN <<>> ELSE UmlautChar(Head(s)) \o Translate(Tail(s))

IdChars == { UpperLetters[i] : i \in 1..Len(UpperLetters) } \cup { DigitChars[i] : i \in 1..Len(DigitChars) }
IsIdChar(c) == c \in IdChars

\* NON_ID_CHARS.sub(".", s): every maximal run outside [A-Z0-9] becomes one ".".
RECURSIVE SubNonId(_, _)
SubNonId(s, inRun) ==
    IF s = <<>> THEN <<>>
    ELSE IF IsIdChar(Head(s)) THEN <<Head(s)>> \o SubNonId(Tail(s), FALSE)
    ELSE IF inRun THEN SubNonId(Tail(s), TRUE)
    ELSE <<".">> \o SubNonId(Tail(s), TRUE)

\* re.sub(r"\.+", ".", s)
RECURSIVE CollapseDots(_)
CollapseDots(s) ==
    IF Len(s) < 2 THEN s
    ELSE IF s[1] = "." /\ s[2] = "." THEN CollapseDots(Tail(s))
    ELSE <<Head(s)>> \o CollapseDots(Tail(s))

\* The normalizer without s.strip(".").
to_id_token_dots_kept(s) ==
    IF s = <<>> THEN <<>>
    ELSE CollapseDots(SubNonId(Upper(Translate(Strip(s))), FALSE))

to_id_token(s) ==
    IF s = <<>> THEN <<>>
    ELSE CollapseDots(StripDots(SubNonId(Upper(Translate(Strip(s))), FALSE)))

\* parse_noun_text with the article compared as it is written.
parse_noun_text_case_sensitive(text) ==
    LET t == Strip(text)
        parts == Split(t)
    IN IF t = <<>> THEN [hasArt |-> FALSE, art |-> <<>>, core |-> <<>>]
       ELSE IF Len(parts) >= 2 /\ parts[1] \in ARTICLES
            THEN [hasArt |-> TRUE, art |-> Lower(parts[1]), core |-> JoinSpace(Tail(parts))]
            ELSE [hasArt |-> FALSE, art |-> <<>>, core |-> t]

\* (article, noun_core); hasArt = FALSE stands for article None.
parse_noun_text(text) ==
    LET t == Strip(text)
        parts == Split(t)
    IN IF t = <<>> THEN [hasArt |-> FALSE, art |-> <<>>, core |-> <<>>]
       ELSE IF Len(parts) >= 2 /\ Lower(parts[1]) \in ARTICLES
            THEN [hasArt |-> TRUE, art |-> Lower(parts[1]), core |-> JoinSpace(Tail(parts))]
            ELSE [hasArt |-> FALSE, art |-> <<>>, core |-> t]

sNoun == <<"n","o","u","n">>
sVerb == <<"v","e","r","b">>
sAdjective == <<"a","d","j","e","c","t","i","v","e">>
sAdverb == <<"a","d","v","e","r","b">>
sTimeNumbers == <<"t","i","m","e","_","n","u","m","b","e","r","s">>
sNumbersTime == <<"n","u","m","b","e","r","s","_","t","i","m","e">>
sLEX == <<"L","E","X">>
sDot == <<".">>
sUNKNOWN == <<"U","N","K","N","O","W","N">>

category_prefix(category) ==
    LET c == Strip(Lower(category))
        tok == to_id_token(c)
    IN IF c = sNoun THEN sLEX \o sDot \o <<"N","O","U","N">>
       ELSE IF c = sVerb THEN sLEX \o sDot \o <<"V","E","R","B">>
       ELSE IF c = sAdjective THEN sLEX \o sDot \o <<"A","D","J">>
       ELSE IF c = sAdverb THEN sLEX \o sDot \o <<"A","D","V">>
       ELSE IF c \in {sTimeNumbers, sNumbersTime} THEN sLEX \o sDot \o <<"T","I","M","E">>
       ELSE sLEX \o sDot \o (IF tok # <<>> THEN tok ELSE <<"I","T","E","M">>)

make_lex_id(category, text) ==
    LET prefix == category_prefix(category)
        p == parse_noun_text(text)
        core_tok == IF to_id_token(p.core) = <<>> THEN sUNKNOWN ELSE to_id_token(p.core)
        tok == IF to_id_token(text) = <<>> THEN sUNKNOWN ELSE to_id_token(text)
    IN IF Strip(Lower(category)) = sNoun
       THEN IF p.hasArt
            THEN prefix \o sDot \o core_tok \o sDot \o to_id_token(p.art)
            ELSE prefix \o sDot \o core_tok
       ELSE prefix \o sDot \o tok

\* ensure_unique_id with the suffix taken before the counter is raised.
ensure_unique_id_stale_count(proposed, used) ==
    IF proposed \notin DOMAIN used
    THEN [id |-> proposed, used |-> used @@ (proposed :> 1)]
    ELSE [id |-> proposed \o sDot \o DecStr(used[proposed]),
          used |-> [used EXCEPT ![proposed] = @ + 1]]

\* ensure_unique_id returns the identifier and updates the counter map.
ensure_unique_id(proposed, used) ==
    IF proposed \notin DOMAIN used
    THEN [id |-> proposed, used |-> used @@ (proposed :> 1)]
    ELSE [id |-> proposed \o sDot \o DecStr(used[proposed] + 1),
          used |-> [used EXCEPT ![proposed] = @ + 1]]


(***************************************************************************)
(* State.                                                                  *)
(***************************************************************************)
VARIABLES
    lexdir,        \* LEXICON_DIR.exists()
    disk,          \* partition file name -> content on disk
    bak,           \* partition file name -> content of its .bak file
    idxfile,       \* content of index.yaml
    idxbak,        \* content of index.yaml.bak
    pc,            \* position of the index builder in main()
    k,             \* position in files_data of the partition being processed
    files_data,    \* loaded partitions, in load order: <<[fname, data], ...>>
    used_counts,   \* identifier -> number of uses
    index_items,   \* index entries collected so far
    changed_files, \* names of the partitions rewritten so far
    rc,            \* exit status of the run (-1 while running)
    disk0,         \* history: partition contents at the start of the run
    idx0,          \* history: index.yaml at the start of the run
    assigned,      \* history: identifiers returned by ensure_unique_id, in call order
    run,           \* number of the run (the replayed run is run 2)
    first,         \* history: what run 1 produced, once it has ended
    vindex,        \* validator: the index document it is given
    vdocs,         \* validator: the rule documents under SCAN_DIRS, in sorted order
    vpc,           \* validator: position in main()
    vi,            \* validator: position in yaml_files
    lex_ids,       \* validator: the identifiers collected from the index
    errors,        \* validator: error counter
    checked,       \* validator: number of documents holding references
    vrc,           \* validator: exit status (-1 while running)
    unit,          \* extractor: the (ppt, slide) unit being processed
    unit_lines,    \* extractor: the text lines of one (ppt, slide) unit
    xpc,           \* extractor: position in main() / extract_tables_from_group()
    lines,         \* extractor: the lines handed to extract_tables_from_group()
    xi,            \* extractor: number of lines consumed by the loop
    current,       \* extractor: the cluster being filled (insertion-ordered dict)
    tables,        \* extractor: the clusters emitted so far
    out_tables,    \* extractor: the table records main() appends
    tfile,         \* the tables of conjugation_tables.yaml
    tfile0,        \* history: the tables at the start
    dpc,           \* deduplicator: position in main()
    dtables,       \* deduplicator: the tables read
    di,            \* deduplicator: number of tables merged so far
    merged,        \* deduplicator: signature -> kept table, in insertion order
    druns,         \* deduplicator: number of completed applications
    dfirst,        \* history: what the first application wrote
    lindex,        \* linker: the index document it is given
    lindex0,       \* history: the index of the linker's first run
    lpc,           \* linker: position in main()
    verb_lookup,   \* linker: normalized verb text -> lex_id, in insertion order
    lstate,        \* linker: the loaded tables, the loop position, updated, missing
    lrc,           \* linker: exit status (-1 while running)
    lruns,         \* linker: number of completed runs
    lfirst,        \* history: the tables after the linker's first run
    pexisting,     \* assigner: the identifiers that exist when the run starts
    pused,         \* assigner: used_counts
    puses,         \* history: the proposals and what ensure_unique_id returned
    grouped,       \* extractor, full run: the units of items.csv with their lines
    gi,            \* extractor, full run: number of units main() has handled
    call_arg,      \* a function called on its own: the argument it is given
    call_ret       \* a function called on its own: what it returned, once it has

bvars == <<lexdir, disk, bak, idxfile, idxbak, pc, k, files_data, used_counts,
           index_items, changed_files, rc, disk0, idx0, assigned, run, first>>

vvars == <<vindex, vdocs, vpc, vi, lex_ids, errors, checked, vrc>>

xvars == <<unit, unit_lines, xpc, lines, xi, current, tables, out_tables>>

\* The variables of the tools that work on the conjugation tables.
\* conjugation_tables.yaml, which the deduplicator and the linker rewrite.
fvars == <<tfile, tfile0>>

dvars == <<dpc, dtables, di, merged, druns, dfirst>>

lvars == <<lindex, lindex0, lpc, verb_lookup, lstate, lrc, lruns, lfirst>>

pvars == <<pexisting, pused, puses>>

gvars == <<grouped, gi>>

cvars == <<call_arg, call_ret>>

ovars == <<xvars, fvars, dvars, lvars, pvars, gvars, cvars>>

vars == <<bvars, vvars, ovars>>

(***************************************************************************)
(* Documents.                                                              *)
(***************************************************************************)
\* A file that does not exist, and a file cut short by a write in progress.
Absent == [kind |-> "absent", hasCat |-> FALSE, category |-> <<>>, isList |-> TRUE, items |-> <<>>]
Partial == [kind |-> "partial", hasCat |-> FALSE, category |-> <<>>, isList |-> TRUE, items |-> <<>>]
\* A document whose top level is not a mapping (a non-empty list, a string).
Scalar == [kind |-> "scalar", hasCat |-> FALSE, category |-> <<>>, isList |-> TRUE, items |-> <<>>]
Mapping(hasCat, category, isList, items) ==
    [kind |-> "map", hasCat |-> hasCat, category |-> category, isList |-> isList, items |-> items]

NoIndex == [kind |-> "absent", items |-> <<>>]
PartialIndex == [kind |-> "partial", items |-> <<>>]
IndexDoc(items) == [kind |-> "index", items |-> items]

INDEX_PATH == <<"i","n","d","e","x",".","y","a","m","l">>

(***************************************************************************)
(* add_lex_ids_and_build_index.py: functions over documents.               *)
(***************************************************************************)
\* load_yaml raises ValueError unless the document is a mapping.
LoadRaises(content) == content.kind # "map"

\* Mutant of NeedsId: every entry is given a generated identifier.
NeedsIdAlways(item) == TRUE

\* "not isinstance(lex_id, str) or not lex_id.strip()"
NeedsId(item) == ~item.has_id \/ Strip(item.lex_id) = <<>>

\* The (file position, item position) pairs of files_data, in scan order.
ScanLess(a, b) == a[1] < b[1] \/ (a[1] = b[1] /\ a[2] < b[2])

collect_all_existing_ids(fd) ==
    LET locs == UNION { { <<f, i>> : i \in { j \in 1..Len(fd[f].data.items) :
                                               /\ fd[f].data.isList
                                               /\ fd[f].data.items[j].dict
                                               /\ ~NeedsId(fd[f].data.items[j]) } } :
                        f \in 1..Len(fd) }
        key(l) == Strip(fd[l[1]].data.items[l[2]].lex_id)
        keys == { key(l) : l \in locs }
    IN [ id \in keys |->
           LET l == CHOOSE l \in locs : key(l) = id /\ \A m \in locs : key(m) = id => ~ScanLess(m, l)
           IN <<fd[l[1]].fname, l[2] - 1>> ]

\* The identifiers of the items of index.yaml as it is on disk.
PriorIndexIds == { idxfile.items[i].lex_id : i \in 1..Len(idxfile.items) }

\* Mutant of SeedUsedCounts: the prior index seeds the counter too.
SeedUsedCountsWithPriorIndex(existing) ==
    [ id \in DOMAIN existing \cup PriorIndexIds |-> 1 ]

\* Lines 220-224: every existing identifier counts as used once.
SeedUsedCounts(existing) == [ id \in DOMAIN existing |-> 1 ]

build_index_entry(category, item) ==
    LET p == parse_noun_text(item.text)
        isNoun == Strip(Lower(category)) = sNoun
        isVerb == Strip(Lower(category)) = sVerb
    IN [lex_id |-> item.lex_id,
        category |-> category,
        text |-> item.text,
        article |-> IF isNoun /\ p.hasArt THEN p.art ELSE <<>>,
        lemma |-> IF isNoun THEN (IF p.core # <<>> THEN Strip(p.core) ELSE item.text)
                  ELSE IF isVerb THEN Strip(item.text) ELSE <<>>]

\* The loop over the items of one partition (lines 243-259).
RECURSIVE process_items(_, _, _, _)
process_items(fname, category, i, st) ==
    IF i > Len(st.items) THEN st
    ELSE LET item == st.items[i] IN
         IF ~item.dict THEN process_items(fname, category, i + 1, st)
         ELSE IF NeedsId(item)
         THEN LET r == ensure_unique_id(make_lex_id(category, item.text), st.used)
                  it2 == [item EXCEPT !.has_id = TRUE, !.lex_id = r.id]
              IN process_items(fname, category, i + 1,
                     [items |-> [st.items EXCEPT ![i] = it2],
                      used |-> r.used,
                      index |-> Append(st.index, build_index_entry(category, it2)),
                      changed |-> TRUE,
                      assigned |-> Append(st.assigned, [fname |-> fname, i |-> i, id |-> r.id])])
         ELSE LET it2 == [item EXCEPT !.lex_id = Strip(item.lex_id)]
              IN process_items(fname, category, i + 1,
                     [st EXCEPT !.items = [st.items EXCEPT ![i] = it2],
                                !.index = Append(st.index, build_index_entry(category, it2))])

\* The sort key (category, lex_id) and list.sort, which is stable.
KeyLess(a, b) == \/ StrLess(a.category, b.category)
                 \/ (a.category = b.category /\ StrLess(a.lex_id, b.lex_id))

RECURSIVE InsertSorted(_, _)
InsertSorted(sorted, e) ==
    IF sorted = <<>> THEN <<e>>
    ELSE IF KeyLess(e, Head(sorted)) THEN <<e>> \o sorted
    ELSE <<Head(sorted)>> \o InsertSorted(Tail(sorted), e)

\* Mutant of SortIndex: the index is emitted in collection order.
SortIndexSkipped(items) == items

RECURSIVE SortIndex(_)
SortIndex(items) ==
    IF items = <<>> THEN <<>>
    ELSE InsertSorted(SortIndex(SubSeq(items, 1, Len(items) - 1)), items[Len(items)])

\* backup_file: shutil.copy2(path, bak) copies what is on disk now.
backup_file(content) == content

\* Mutant of StepAfterItems: a changed partition is written back with no backup.
StepAfterItemsNoBackup(changed) == IF changed THEN "dump" ELSE "loop"

\* Lines 261-266: a changed partition is backed up, then written back.
StepAfterItems(changed) == IF changed THEN "backup" ELSE "loop"

(***************************************************************************)
(* Inputs: the partition documents and the prior index of a run.           *)
(***************************************************************************)
tA == <<"a">>
tA2 == <<"a"," ","2">>
Texts == {tA, tA2}

idA == <<"L","E","X",".","N","O","U","N",".","A">>
idA2 == idA \o <<".","2">>
idPaddedA == <<" ">> \o idA \o <<" ">>
idBlank == <<" ">>
LexIdValues == {idPaddedA, idA2}

NonDictItem == [dict |-> FALSE, text |-> <<>>, has_id |-> FALSE, lex_id |-> <<>>]
ItemValues ==
    {NonDictItem}
    \cup { [dict |-> TRUE, text |-> tA, has_id |-> FALSE, lex_id |-> <<>>],
            [dict |-> TRUE, text |-> tA2, has_id |-> TRUE, lex_id |-> idBlank] }
    \cup { [dict |-> TRUE, text |-> tA, has_id |-> TRUE, lex_id |-> v] : v \in LexIdValues }

CategoryValues == {sNoun, <<" ">> \o sVerb}

WellFormed(n) == { Mapping(TRUE, c, TRUE, its) : c \in CategoryValues, its \in [1..n -> ItemValues] }
NoCategory == Mapping(FALSE, <<>>, TRUE, <<>>)
ItemsNotList == Mapping(TRUE, sNoun, FALSE, <<>>)
Malformed == {Scalar, NoCategory, ItemsNotList}
ContentsExact(n) == WellFormed(n) \cup (IF n = 0 THEN Malformed \cup {Absent} ELSE {})
ContentsUpTo(n) == UNION { ContentsExact(m) : m \in 0..n }

\* An index.yaml left by an earlier build.
OldIndex == IndexDoc(<< [lex_id |-> idA, category |-> sNoun, text |-> tA,
                         article |-> <<>>, lemma |-> tA] >>)

NoRun == [ended |-> FALSE, rc |-> -1, assigned |-> <<>>, index |-> NoIndex,
          disk |-> [f \in {NOUNS, VERBS} |-> Absent]]

(***************************************************************************)
(* The index builder, main(), step by step.                                *)
(***************************************************************************)
BuilderInit ==
    /\ lexdir \in BOOLEAN
    /\ IF lexdir
       THEN /\ \E n \in 0..MaxItems :
                 \E c1 \in ContentsExact(n), c2 \in ContentsUpTo(MaxItems - n) :
                     disk = (NOUNS :> c1) @@ (VERBS :> c2)
            /\ idxfile \in {NoIndex, OldIndex}
       ELSE /\ disk = [f \in {NOUNS, VERBS} |-> Absent]
            /\ idxfile = NoIndex
    /\ bak = [f \in {NOUNS, VERBS} |-> Absent]
    /\ idxbak = NoIndex
    /\ pc = "start"
    /\ k = 0
    /\ files_data = <<>>
    /\ used_counts = <<>>
    /\ index_items = <<>>
    /\ changed_files = <<>>
    /\ rc = -1
    /\ disk0 = disk
    /\ idx0 = idxfile
    /\ assigned = <<>>
    /\ run = 1
    /\ first = NoRun

\* return <code>, or the process ending on an uncaught exception (status 1).
Exit(code) == /\ pc' = "done"
              /\ rc' = code

\* Lines 203-228: load the partitions that exist and seed the counter.
Load ==
    /\ pc = "start"
    /\ LET exists(f) == disk[f].kind # "absent"
           present == SelectSeq(MANAGED_FILES, exists)
           fd == [i \in 1..Len(present) |-> [fname |-> present[i], data |-> disk[present[i]]]]
           existing_id_first_seen == collect_all_existing_ids(fd)
       IN IF ~lexdir
          THEN Exit(2) /\ UNCHANGED <<files_data, used_counts, k>>
          ELSE IF \E i \in 1..Len(present) : LoadRaises(disk[present[i]])
          THEN Exit(1) /\ UNCHANGED <<files_data, used_counts, k>>
          ELSE IF present = <<>>
          THEN Exit(2) /\ UNCHANGED <<files_data, used_counts, k>>
          ELSE /\ files_data' = fd
               /\ used_counts' = SeedUsedCounts(existing_id_first_seen)
               /\ k' = 1
               /\ pc' = "loop"
               /\ UNCHANGED rc
    /\ UNCHANGED <<lexdir, disk, bak, idxfile, idxbak, index_items, changed_files,
                   disk0, idx0, assigned, run, first>>
    /\ UNCHANGED <<vvars, ovars>>

\* Lines 230-262: one partition, in memory.
ProcessFile ==
    /\ pc = "loop"
    /\ k <= Len(files_data)
    /\ LET fname == files_data[k].fname
           data == files_data[k].data
           category == Strip(IF data.hasCat THEN data.category ELSE <<>>)
           st == process_items(fname, category, 1,
                     [items |-> data.items, used |-> used_counts, index |-> index_items,
                      changed |-> FALSE, assigned |-> assigned])
       IN IF category = <<>> \/ ~data.isList
          THEN /\ Exit(2)
               /\ UNCHANGED <<k, files_data, used_counts, index_items, changed_files, assigned>>
          ELSE /\ files_data' = [files_data EXCEPT ![k].data.items = st.items]
               /\ used_counts' = st.used
               /\ index_items' = st.index
               /\ assigned' = st.assigned
               /\ IF st.changed
                  THEN /\ changed_files' = Append(changed_files, fname)
                       /\ k' = k
                  ELSE /\ changed_files' = changed_files
                       /\ k' = k + 1
               /\ pc' = StepAfterItems(st.changed)
               /\ UNCHANGED rc
    /\ UNCHANGED <<lexdir, disk, bak, idxfile, idxbak, disk0, idx0, run, first>>
    /\ UNCHANGED <<vvars, ovars>>

\* Line 265: backup_file(path); the copy exists, cut short, before it is complete.
BackupBegin ==
    /\ pc = "backup"
    /\ bak' = [bak EXCEPT ![files_data[k].fname] = Partial]
    /\ pc' = "backup_copy"
    /\ UNCHANGED <<lexdir, disk, idxfile, idxbak, k, files_data, used_counts, index_items,
                   changed_files, rc, disk0, idx0, assigned, run, first>>
    /\ UNCHANGED <<vvars, ovars>>

BackupEnd ==
    /\ pc = "backup_copy"
    /\ bak' = [bak EXCEPT ![files_data[k].fname] = backup_file(disk[files_data[k].fname])]
    /\ pc' = "dump"
    /\ UNCHANGED <<lexdir, disk, idxfile, idxbak, k, files_data, used_counts, index_items,
                   changed_files, rc, disk0, idx0, assigned, run, first>>
    /\ UNCHANGED <<vvars, ovars>>

\* Line 266: dump_yaml(path, data); open(path, "w") truncates, then the dump is written.
WriteBegin ==
    /\ pc = "dump"
    /\ disk' = [disk EXCEPT ![files_data[k].fname] = Partial]
    /\ pc' = "dump_write"
    /\ UNCHANGED <<lexdir, bak, idxfile, idxbak, k, files_data, used_counts, index_items,
                   changed_files, rc, disk0, idx0, assigned, run, first>>
    /\ UNCHANGED <<vvars, ovars>>

WriteEnd ==
    /\ pc = "dump_write"
    /\ disk' = [disk EXCEPT ![files_data[k].fname] = files_data[k].data]
    /\ pc' = "loop"
    /\ k' = k + 1
    /\ UNCHANGED <<lexdir, bak, idxfile, idxbak, files_data, used_counts, index_items,
                   changed_files, rc, disk0, idx0, assigned, run, first>>
    /\ UNCHANGED <<vvars, ovars>>

\* Lines 269-282: sort the index entries; the index is backed up only if it exists.
SortAndChoose ==
    /\ pc = "loop"
    /\ k > Len(files_data)
    /\ index_items' = SortIndex(index_items)
    /\ pc' = IF idxfile.kind # "absent" THEN "index_backup" ELSE "index_dump"
    /\ UNCHANGED <<lexdir, disk, bak, idxfile, idxbak, k, files_data, used_counts,
                   changed_files, rc, disk0, idx0, assigned, run, first>>
    /\ UNCHANGED <<vvars, ovars>>

\* Line 283: backup_file(INDEX_PATH).
IndexBackupBegin ==
    /\ pc = "index_backup"
    /\ idxbak' = PartialIndex
    /\ pc' = "index_backup_copy"
    /\ UNCHANGED <<lexdir, disk, bak, idxfile, k, files_data, used_counts, index_items,
                   changed_files, rc, disk0, idx0, assigned, run, first>>
    /\ UNCHANGED <<vvars, ovars>>

IndexBackupEnd ==
    /\ pc = "index_backup_copy"
    /\ idxbak' = backup_file(idxfile)
    /\ pc' = "index_dump"
    /\ UNCHANGED <<lexdir, disk, bak, idxfile, k, files_data, used_counts, index_items,
                   changed_files, rc, disk0, idx0, assigned, run, first>>
    /\ UNCHANGED <<vvars, ovars>>

\* Lines 284 / 287: dump_yaml(INDEX_PATH, index_payload), then return 0.
IndexWriteBegin ==
    /\ pc = "index_dump"
    /\ idxfile' = PartialIndex
    /\ pc' = "index_dump_write"
    /\ UNCHANGED <<lexdir, disk, bak, idxbak, k, files_data, used_counts, index_items,
                   changed_files, rc, disk0, idx0, assigned, run, first>>
    /\ UNCHANGED <<vvars, ovars>>

IndexWriteEnd ==
    /\ pc = "index_dump_write"
    /\ idxfile' = IndexDoc(index_items)
    /\ Exit(0)
    /\ UNCHANGED <<lexdir, disk, bak, idxbak, k, files_data, used_counts, index_items,
                   changed_files, disk0, idx0, assigned, run, first>>
    /\ UNCHANGED <<vvars, ovars>>

\* A second run of the builder, started on the same partition contents as the
\* first one; index.yaml and the .bak files stay as the first run left them.
Replay ==
    /\ pc = "done"
    /\ run = 1
    /\ first' = [ended |-> TRUE, rc |-> rc, assigned |-> assigned, index |-> idxfile,
                 disk |-> disk]
    /\ run' = 2
    /\ disk' = disk0
    /\ idx0' = idxfile
    /\ pc' = "start"
    /\ k' = 0
    /\ files_data' = <<>>
    /\ used_counts' = <<>>
    /\ index_items' = <<>>
    /\ changed_files' = <<>>
    /\ rc' = -1
    /\ assigned' = <<>>
    /\ UNCHANGED <<lexdir, bak, idxfile, idxbak, disk0>>
    /\ UNCHANGED <<vvars, ovars>>

\* The run is stopped between two partitions, after it has rewritten at least
\* one, and the builder is started again on the files as they are on disk.
\* disk0 stays what it was when the stopped run started.
StopAndRerun ==
    /\ pc = "loop"
    /\ run = 1
    /\ changed_files # <<>>
    /\ first' = [ended |-> FALSE, rc |-> rc, assigned |-> assigned, index |-> idxfile,
                 disk |-> disk]
    /\ run' = 2
    /\ idx0' = idxfile
    /\ pc' = "start"
    /\ k' = 0
    /\ files_data' = <<>>
    /\ used_counts' = <<>>
    /\ index_items' = <<>>
    /\ changed_files' = <<>>
    /\ assigned' = <<>>
    /\ UNCHANGED <<lexdir, disk, bak, idxfile, idxbak, rc, disk0>>
    /\ UNCHANGED <<vvars, ovars>>

(***************************************************************************)
(* Specifications.                                                         *)
(***************************************************************************)
ValidatorIdle ==
    /\ vindex = [exists |-> FALSE, ids |-> <<>>]
    /\ vdocs = <<>>
    /\ vpc = "idle"
    /\ vi = 0
    /\ lex_ids = {}
    /\ errors = 0
    /\ checked = 0
    /\ vrc = -1

ExtractorIdle ==
    /\ unit = [ppt |-> <<>>, slide |-> <<>>]
    /\ unit_lines = <<>>
    /\ xpc = "idle"
    /\ lines = <<>>
    /\ xi = 0
    /\ current = <<>>
    /\ tables = <<>>
    /\ out_tables = <<>>

TablesFileIdle ==
    /\ tfile = <<>>
    /\ tfile0 = <<>>

DedupeIdle ==
    /\ dpc = "idle"
    /\ dtables = <<>>
    /\ di = 0
    /\ merged = <<>>
    /\ druns = 0
    /\ dfirst = [ended |-> FALSE]

LinkerIdle ==
    /\ lindex = [exists |-> FALSE, items |-> <<>>]
    /\ lindex0 = lindex
    /\ lpc = "idle"
    /\ verb_lookup = <<>>
    /\ lstate = [tables |-> <<>>, i |-> 0, updated |-> 0, missing |-> <<>>]
    /\ lrc = -1
    /\ lruns = 0
    /\ lfirst = [ended |-> FALSE]

AssignerIdle ==
    /\ pexisting = {}
    /\ pused = <<>>
    /\ puses = <<>>

RunIdle ==
    /\ grouped = <<>>
    /\ gi = 0

\* No function has been called on its own.
NotCalled == [done |-> FALSE]
CallIdle ==
    /\ call_arg = <<>>
    /\ call_ret = NotCalled

OthersIdle ==
    /\ ExtractorIdle /\ TablesFileIdle /\ DedupeIdle /\ LinkerIdle /\ AssignerIdle
    /\ RunIdle /\ CallIdle

Init == BuilderInit /\ ValidatorIdle /\ OthersIdle

Next ==
    \/ Load
    \/ ProcessFile
    \/ BackupBegin
    \/ BackupEnd
    \/ WriteBegin
    \/ WriteEnd
    \/ SortAndChoose
    \/ IndexBackupBegin
    \/ IndexBackupEnd
    \/ IndexWriteBegin
    \/ IndexWriteEnd

\* One run of the index builder.
Spec == Init /\ [][Next]_vars

NextTwin ==
    \/ Next
    \/ Replay

\* Two runs of the index builder from the same partition contents.
SpecTwin == Init /\ [][NextTwin]_vars

NextRerun ==
    \/ Next
    \/ StopAndRerun

\* A run of the index builder that may be stopped after a partition rewrite,
\* and the run that follows it.
SpecRerun == Init /\ [][NextRerun]_vars

(***************************************************************************)
(* validate_ruleset_integrity.py.                                          *)
(* A YAML value is a record: a mapping (kids with keys), a list (kids),    *)
(* a string, or null.                                                      *)
(***************************************************************************)
Null == [kind |-> "null", val |-> <<>>, kids |-> <<>>]
Str(v) == [kind |-> "str", val |-> v, kids |-> <<>>]
Map(kids) == [kind |-> "map", val |-> <<>>, kids |-> kids]
List(nodes) == [kind |-> "list", val |-> <<>>,
                kids |-> [i \in 1..Len(nodes) |-> [key |-> <<>>, node |-> nodes[i]]]]
Kid(key, node) == [key |-> key, node |-> node]

s_lex_id == <<"_","l","e","x","_","i","d">>

\* LEX_ID_KEY_RE.match(k_str): the key ends in "_lex_id".
IsLexIdKey(key) ==
    /\ Len(key) >= Len(s_lex_id)
    /\ SubSeq(key, Len(key) - Len(s_lex_id) + 1, Len(key)) = s_lex_id

\* str(v): a string is itself; a mapping or a list gives its repr, which
\* begins with a brace or a bracket.
StrOf(node) == IF node.kind = "str" THEN node.val
               ELSE IF node.kind = "map" THEN <<"{", "}">>
               ELSE IF node.kind = "list" THEN <<"[", "]">>
               ELSE <<"N","o","n","e">>

\* collect_lex_ids: the truthy lex_id values of the index items.
collect_lex_ids(index_data) ==
    { index_data.ids[i] : i \in { j \in 1..Len(index_data.ids) : index_data.ids[j] # <<>> } }

\* Mutant of find_lex_id_refs: only the keys of the top-level mapping are looked at.
find_lex_id_refs_top_level(obj, path) ==
    IF obj.kind = "map"
    THEN LET hit(i) == IsLexIdKey(obj.kids[i].key) /\ obj.kids[i].node.kind # "null"
             sub(i) == IF path # <<>> THEN path \o <<".">> \o obj.kids[i].key ELSE obj.kids[i].key
             pick(i) == IF hit(i) THEN << <<sub(i), StrOf(obj.kids[i].node)>> >> ELSE <<>>
             F[i \in 0..Len(obj.kids)] == IF i = 0 THEN <<>> ELSE F[i - 1] \o pick(i)
         IN F[Len(obj.kids)]
    ELSE <<>>

\* The list of (field_path, value) for the *_lex_id keys found in obj.
RECURSIVE find_lex_id_refs(_, _)
find_lex_id_refs(obj, path) ==
    IF obj.kind = "map"
    THEN LET sub(i) == IF path # <<>> THEN path \o <<".">> \o obj.kids[i].key ELSE obj.kids[i].key
             own(i) == IF IsLexIdKey(obj.kids[i].key) /\ obj.kids[i].node.kind # "null"
                       THEN << <<sub(i), StrOf(obj.kids[i].node)>> >>
                       ELSE <<>>
             F[i \in 0..Len(obj.kids)] ==
                 IF i = 0 THEN <<>>
                 ELSE F[i - 1] \o own(i) \o find_lex_id_refs(obj.kids[i].node, sub(i))
         IN F[Len(obj.kids)]
    ELSE IF obj.kind = "list"
    THEN LET sub(i) == path \o <<"[">> \o DecStr(i - 1) \o <<"]">>
             F[i \in 0..Len(obj.kids)] ==
                 IF i = 0 THEN <<>>
                 ELSE F[i - 1] \o find_lex_id_refs(obj.kids[i].node, sub(i))
         IN F[Len(obj.kids)]
    ELSE <<>>

(***************************************************************************)
(* Inputs of the validator.                                                *)
(***************************************************************************)
idZ == <<"L","E","X",".","N","O","U","N",".","Z">>
kRef == <<"n","o","u","n">> \o s_lex_id
kOther == <<"l","e","x","_","i","d">>
kRules == <<"r","u","l","e","s">>

\* A reference wrapped in d levels of mapping-with-list.
RECURSIVE Nest(_, _)
Nest(node, d) == IF d = 0 THEN node
                 ELSE Map(<< Kid(kRules, List(<< Nest(node, d - 1) >>)) >>)

RefValues == {Null, Str(idA), Str(idZ)}

DocRoots ==
    { Nest(Map(<< Kid(key, v) >>), d) : key \in {kRef, kOther}, v \in RefValues, d \in 0..MaxDepth }
    \cup { Map(<< Kid(kRef, Str(idZ)),
                  Kid(kRules, List(<< Map(<< Kid(kRef, Str(idZ)) >>), Map(<< Kid(kRef, Str(idA)) >>) >>)) >>),
           Map(<< Kid(kRef, Map(<< Kid(kRef, Str(idA)) >>)) >>),
           Str(idZ) }

\* A rule document: one that fails to parse, or its parsed value.
Unparsable == [ok |-> FALSE, root |-> Null]
RuleDocs == {Unparsable} \cup { [ok |-> TRUE, root |-> r] : r \in DocRoots }

IndexInputs == { [exists |-> FALSE, ids |-> <<>>],
                 [exists |-> TRUE, ids |-> <<>>],
                 [exists |-> TRUE, ids |-> << <<>> >>],
                 [exists |-> TRUE, ids |-> << idA >>],
                 [exists |-> TRUE, ids |-> << idA, idA2 >>] }

(***************************************************************************)
(* The validator, main(), step by step.                                    *)
(***************************************************************************)
ValidatorInit ==
    /\ vindex \in IndexInputs
    /\ \E n \in 0..MaxDocs : vdocs \in [1..n -> RuleDocs]
    /\ vpc = "start"
    /\ vi = 0
    /\ lex_ids = {}
    /\ errors = 0
    /\ checked = 0
    /\ vrc = -1

\* Lines 75-91: load the index, collect its identifiers, list the documents.
VStart ==
    /\ vpc = "start"
    /\ IF ~vindex.exists
       THEN vpc' = "done" /\ vrc' = 2 /\ UNCHANGED <<lex_ids, vi>>
       ELSE /\ lex_ids' = collect_lex_ids(vindex)
            /\ IF collect_lex_ids(vindex) = {}
               THEN vpc' = "done" /\ vrc' = 2 /\ UNCHANGED vi
               ELSE IF vdocs = <<>>
               THEN vpc' = "done" /\ vrc' = 0 /\ UNCHANGED vi
               ELSE vpc' = "scan" /\ vi' = 1 /\ UNCHANGED vrc
    /\ UNCHANGED <<vindex, vdocs, errors, checked>>
    /\ UNCHANGED <<bvars, ovars>>

\* The number of references of a list that are not in the identifier set.
Misses(refs, ids) == Cardinality({ i \in 1..Len(refs) : refs[i][2] \notin ids })

\* Lines 93-109: one rule document.
VScan ==
    /\ vpc = "scan"
    /\ vi <= Len(vdocs)
    /\ LET doc == vdocs[vi]
           refs == find_lex_id_refs(doc.root, <<>>)
       IN IF ~doc.ok
          THEN errors' = errors + 1 /\ UNCHANGED checked
          ELSE IF refs = <<>>
          THEN UNCHANGED <<errors, checked>>
          ELSE /\ checked' = checked + 1
               /\ errors' = errors + Misses(refs, lex_ids)
    /\ vi' = vi + 1
    /\ UNCHANGED <<vindex, vdocs, vpc, lex_ids, vrc>>
    /\ UNCHANGED <<bvars, ovars>>

\* Lines 111-122: the summary and the exit status.
VFinish ==
    /\ vpc = "scan"
    /\ vi > Len(vdocs)
    /\ vpc' = "done"
    /\ vrc' = IF errors # 0 THEN 1 ELSE 0
    /\ UNCHANGED <<vindex, vdocs, vi, lex_ids, errors, checked>>
    /\ UNCHANGED <<bvars, ovars>>

BuilderIdle ==
    /\ lexdir = FALSE
    /\ disk = [f \in {NOUNS, VERBS} |-> Absent]
    /\ bak = [f \in {NOUNS, VERBS} |-> Absent]
    /\ idxfile = NoIndex
    /\ idxbak = NoIndex
    /\ pc = "idle"
    /\ k = 0
    /\ files_data = <<>>
    /\ used_counts = <<>>
    /\ index_items = <<>>
    /\ changed_files = <<>>
    /\ rc = -1
    /\ disk0 = disk
    /\ idx0 = idxfile
    /\ assigned = <<>>
    /\ run = 1
    /\ first = NoRun

InitValidator == BuilderIdle /\ ValidatorInit /\ OthersIdle

NextValidator ==
    \/ VStart
    \/ VScan
    \/ VFinish

\* One run of the integrity validator.
SpecValidator == InitValidator /\ [][NextValidator]_vars

(***************************************************************************)
(* Properties of the index builder.                                        *)
(***************************************************************************)
Files == {NOUNS, VERBS}
Ended == pc = "done"
Built == pc = "done" /\ rc = 0
IndexIds == [i \in 1..Len(idxfile.items) |-> idxfile.items[i].lex_id]

\* The (file, position) pairs of the mapping items of a partition state.
DictEntries(d) == UNION { { <<f, i>> : i \in { j \in 1..Len(d[f].items) : d[f].items[j].dict } } :
                          f \in { g \in Files : d[g].kind = "map" /\ d[g].isList } }
HasId(item) == item.has_id /\ Strip(item.lex_id) # <<>>
\* The identifiers the entries carry, as written in the partitions.
CarriedIds(d) == { d[e[1]].items[e[2]].lex_id : e \in { x \in DictEntries(d) : HasId(d[x[1]].items[x[2]]) } }

SeqToBag(seq) == [ e \in { seq[i] : i \in 1..Len(seq) } |->
                     Cardinality({ i \in 1..Len(seq) : seq[i] = e }) ]

\* No two entries carry the same identifier when the run starts.
DistinctAtStart ==
    \A e1, e2 \in { x \in DictEntries(disk0) : HasId(disk0[x[1]].items[x[2]]) } :
        e1 # e2 => Strip(disk0[e1[1]].items[e1[2]].lex_id) # Strip(disk0[e2[1]].items[e2[2]].lex_id)

\* C1: after an index build that returns 0, no two items of the emitted index
\* have the same lex_id. It is stated for the runs whose partitions hold no
\* duplicate identifier at the start, the case in which any duplicate of the
\* index is one the run has made.
C1_IndexIdsUnique ==
    (Built /\ DistinctAtStart) =>
        \A i, j \in 1..Len(idxfile.items) : i < j => IndexIds[i] # IndexIds[j]

\* C2: an identifier newly assigned in a run is never equal to an identifier
\* that an entry of a managed partition carried at the start of the run.
C2_NewIdNeverExisting ==
    \A n \in 1..Len(assigned) : assigned[n].id \notin CarriedIds(disk0)

\* C3: the identifiers returned by the calls of ensure_unique_id that share the
\* counter map of one run are pairwise distinct.
C3_ReturnedIdsDistinct ==
    \A m, n \in 1..Len(assigned) : m < n => assigned[m].id # assigned[n].id

\* C4 as stated: every entry that carries a non-empty lex_id (one that holds
\* a non-whitespace character) before the run carries the same lex_id after
\* it, and only entries lacking a lex_id receive a generated one.
C4_ExistingIdUnchanged ==
    Ended =>
        \A e \in DictEntries(disk0) :
            LET before == disk0[e[1]].items[e[2]] IN
            HasId(before) =>
                /\ disk[e[1]].items[e[2]].lex_id = before.lex_id
                /\ \A n \in 1..Len(assigned) : <<assigned[n].fname, assigned[n].i>> # e

\* C4 amended: every entry whose lex_id holds a non-whitespace character keeps
\* it up to surrounding whitespace (it is written back stripped when its
\* partition is rewritten), and only entries whose lex_id is missing or blank
\* receive a generated one.
C4_ExistingIdKeptUpToStrip ==
    Ended =>
        /\ \A e \in DictEntries(disk0) :
              LET before == disk0[e[1]].items[e[2]] IN
              HasId(before) =>
                 /\ disk[e[1]].items[e[2]].lex_id \in {before.lex_id, Strip(before.lex_id)}
                 /\ \A n \in 1..Len(assigned) : <<assigned[n].fname, assigned[n].i>> # e
        /\ \A n \in 1..Len(assigned) :
              /\ <<assigned[n].fname, assigned[n].i>> \in DictEntries(disk0)
              /\ ~HasId(disk0[assigned[n].fname].items[assigned[n].i])

\* Witness of C4: a build has rewritten a partition that held a padded lex_id,
\* which is now stored stripped.
C4_Witness ==
    /\ Built
    /\ \E e \in DictEntries(disk0) :
          LET before == disk0[e[1]].items[e[2]] IN
          /\ HasId(before)
          /\ before.lex_id # Strip(before.lex_id)
          /\ disk[e[1]].items[e[2]].lex_id = Strip(before.lex_id)

\* C5: two runs started from the same partition contents end with the same
\* exit status, assign the same identifiers to the same entries in the same
\* order, leave the same partitions and emit the same index.
C5_RunsAgree ==
    (run = 2 /\ Ended) =>
        /\ rc = first.rc
        /\ assigned = first.assigned
        /\ disk = first.disk
        /\ idxfile = first.index

\* Witness of C5: the second run has ended after assigning two identifiers,
\* with the first run's index (of two items or more) on disk when it started.
C5_Witness ==
    /\ run = 2
    /\ Built
    /\ Len(assigned) >= 2
    /\ Len(idx0.items) >= 2

\* A malformed top-level structure of a partition document.
NotAMapping(c) == c.kind = "scalar"
NoCategoryLabel(c) == c.kind = "map" /\ (~c.hasCat \/ c.category = <<>>)
ItemsNoSequence(c) == c.kind = "map" /\ ~c.isList

\* C6: if a managed partition is not a mapping, has no category label or has
\* items that are no sequence, the builder ends with exit status 2 and the
\* index file is unchanged.
C6_MalformedExitsTwo ==
    (Ended /\ \E f \in Files : NotAMapping(disk0[f]) \/ NoCategoryLabel(disk0[f])
                                 \/ ItemsNoSequence(disk0[f]))
        => (rc = 2 /\ idxfile = idx0)

\* C7: when the builder aborts because a partition has no category or items
\* that are no sequence, no partition file has been rewritten and no backup
\* or index has been written.
C7_AbortWritesNothing ==
    (Ended /\ rc = 2 /\ \E f \in Files : NoCategoryLabel(disk0[f]) \/ ItemsNoSequence(disk0[f]))
        => /\ disk = disk0
           /\ bak = [f \in Files |-> Absent]
           /\ idxfile = idx0
           /\ idxbak = NoIndex

\* C8: in every state of a run, a partition file or a prior index file whose
\* content on disk differs from its content at the start of the run has a
\* backup that holds the start-of-run content.
C8_BackupBeforeOverwrite ==
    /\ \A f \in Files : disk[f] # disk0[f] => bak[f] = disk0[f]
    /\ (idx0.kind # "absent" /\ idxfile # idx0) => idxbak = idx0

\* Witness of C8: the overwrite of a partition and of a prior index has begun
\* (the file is cut short) and the run could stop here.
C8_Witness ==
    /\ pc = "index_dump_write"
    /\ idx0.kind # "absent"
    /\ idxfile = PartialIndex
    /\ \E f \in Files : disk[f] # disk0[f]

\* Non-decreasing order of (category, lex_id).
OrderedPair(a, b) == \/ StrLess(a.category, b.category)
                     \/ (a.category = b.category /\ ~StrLess(b.lex_id, a.lex_id))
IndexSorted == \A i \in 1..(Len(idxfile.items) - 1) :
                  OrderedPair(idxfile.items[i], idxfile.items[i + 1])
IndexKeys == [i \in 1..Len(idxfile.items) |->
                 [lex_id |-> idxfile.items[i].lex_id, category |-> idxfile.items[i].category,
                  text |-> idxfile.items[i].text]]
LoadedFiles == { f \in Files : disk[f].kind = "map" }

\* C9 as stated: after a successful build the index holds one item for every
\* entry of every partition, each with a non-empty lex_id and the category of
\* its partition, in non-decreasing order of (category, lex_id).
C9_IndexCoversEveryEntry ==
    Built =>
        /\ \E place \in [1..Len(idxfile.items) -> UNION { {f} \X (1..Len(disk[f].items)) : f \in LoadedFiles }] :
              /\ \A i, j \in 1..Len(idxfile.items) : i # j => place[i] # place[j]
              /\ \A f \in LoadedFiles : \A n \in 1..Len(disk[f].items) :
                    \E i \in 1..Len(idxfile.items) : place[i] = <<f, n>>
              /\ \A i \in 1..Len(idxfile.items) :
                    /\ idxfile.items[i].category = disk[place[i][1]].category
                    /\ idxfile.items[i].lex_id # <<>>
        /\ IndexSorted

\* The index key an entry that is a mapping is expected to have.
ExpectedKey(e) == [lex_id |-> Strip(disk[e[1]].items[e[2]].lex_id),
                   category |-> Strip(disk[e[1]].category),
                   text |-> disk[e[1]].items[e[2]].text]
ExpectedBag == [ key \in { ExpectedKey(e) : e \in DictEntries(disk) } |->
                   Cardinality({ e \in DictEntries(disk) : ExpectedKey(e) = key }) ]

\* C9 amended: after a successful build the index holds exactly one item for
\* every entry that is a mapping, each with the entry's text, its lex_id
\* stripped (non-empty) and the stripped category of its partition, in
\* non-decreasing order of (category, lex_id).
C9_IndexCoversMappingEntries ==
    Built =>
        /\ SeqToBag(IndexKeys) = ExpectedBag
        /\ \A i \in 1..Len(idxfile.items) : idxfile.items[i].lex_id # <<>>
        /\ IndexSorted

\* Witness of C9: a successful build over two partitions, one with a padded
\* category, collected in an order that is not the sorted order, with an
\* item that is no mapping among the entries.
C9_Witness ==
    /\ Built
    /\ Len(files_data) = 2
    /\ StrLess(Strip(disk[VERBS].category), Strip(disk[NOUNS].category))
    /\ disk[NOUNS].category # Strip(disk[NOUNS].category)
    /\ \A f \in Files : \E e \in DictEntries(disk) : e[1] = f
    /\ \E f \in Files : \E n \in 1..Len(disk[f].items) : ~disk[f].items[n].dict

(***************************************************************************)
(* Properties of the validator.                                            *)
(***************************************************************************)
\* The lex_id values of the items of the index.
IndexLexIds == { vindex.ids[i] : i \in 1..Len(vindex.ids) } \ { <<>> }

\* The non-null fields of a value whose name ends in _lex_id, at any depth,
\* that do not hold a lex_id of the index: their number.
RECURSIVE Unresolved(_)
Unresolved(node) ==
    LET here(i) == IF /\ node.kind = "map"
                      /\ IsLexIdKey(node.kids[i].key)
                      /\ node.kids[i].node.kind # "null"
                      /\ ~(node.kids[i].node.kind = "str" /\ node.kids[i].node.val \in IndexLexIds)
                   THEN 1 ELSE 0
        G[i \in 0..Len(node.kids)] ==
            IF i = 0 THEN 0 ELSE G[i - 1] + here(i) + Unresolved(node.kids[i].node)
    IN G[Len(node.kids)]

ParsedDocs == { i \in 1..Len(vdocs) : vdocs[i].ok }
RECURSIVE SumUnresolved(_)
SumUnresolved(n) == IF n = 0 THEN 0
                    ELSE SumUnresolved(n - 1) + (IF vdocs[n].ok THEN Unresolved(vdocs[n].root) ELSE 0)
UnresolvedTotal == SumUnresolved(Len(vdocs))
ParseFailures == Len(vdocs) - Cardinality(ParsedDocs)
VEnded == vpc = "done"

RECURSIVE single_run(_, _, _)
single_run(fd, n, st) ==
    IF n > Len(fd) THEN st
    ELSE LET r == process_items(fd[n].fname, Strip(fd[n].data.category), 1,
                      [items |-> fd[n].data.items, used |-> st.used, index |-> st.index,
                       changed |-> FALSE, assigned |-> st.assigned])
         IN  single_run(fd, n + 1,
                 [used |-> r.used, index |-> r.index, assigned |-> r.assigned,
                  items |-> Append(st.items, r.items)])

\* The items of the partitions after one run from d0 that is not stopped,
\* in load order.
SingleRunItems(d0) ==
    LET exists(f) == d0[f].kind # "absent"
        present == SelectSeq(MANAGED_FILES, exists)
        fd == [i \in 1..Len(present) |-> [fname |-> present[i], data |-> d0[present[i]]]]
    IN  single_run(fd, 1, [used |-> SeedUsedCounts(collect_all_existing_ids(fd)),
                           index |-> <<>>, assigned |-> <<>>, items |-> <<>>]).items

\* The items of the partitions that exist on disk, in load order.
DiskItems ==
    LET exists(f) == disk[f].kind # "absent"
        present == SelectSeq(MANAGED_FILES, exists)
    IN  [i \in 1..Len(present) |-> disk[present[i]].items]

\* The identifier of every entry, trimmed (an unchanged partition is not
\* written back, so an identifier it carries keeps its padding on disk).
EntryIds(parts) ==
    [n \in 1..Len(parts) |-> [i \in 1..Len(parts[n]) |-> Strip(parts[n][i].lex_id)]]

Rerun == run = 2 /\ ~first.ended

\* C27: when a run is stopped after a partition rewrite and the builder is run
\* again to its end on the files left on disk, every entry has the identifier
\* that one run without a stop gives it from the original partitions, and no
\* two items of the index have the same lex_id. It is stated for original
\* partitions that hold no duplicate identifier.
C27_RerunMatchesSingleRun ==
    (Rerun /\ Built /\ DistinctAtStart) =>
        /\ EntryIds(DiskItems) = EntryIds(SingleRunItems(disk0))
        /\ \A i, j \in 1..Len(idxfile.items) : i < j => IndexIds[i] # IndexIds[j]

(***************************************************************************)
(* conjugation/extract_conjugation_tables.py: constants and functions.     *)
(* A dict is a sequence of <<key, value>> pairs in insertion order.        *)
(***************************************************************************)
\* Largest number of lines of a freely composed slide unit.
MaxLines == 4

sIch == <<"i","c","h">>
sDu == <<"d","u">>
sEr == <<"e","r">>
sSie == <<"s","i","e">>
sEs == <<"e","s">>
sWir == <<"w","i","r">>
sIhr == <<"i","h","r">>
sSieFormal == <<"S","i","e">>
sSieSg == <<"s","i","e","_","s","g">>
sSiePl == <<"s","i","e","_","p","l">>

PRONOUN_ORDER == <<sIch, sDu, sSieFormal, sEr, sSieSg, sEs, sWir, sIhr, sSiePl>>

\* The alternatives of RE_PRONOUN_PAIR, in the order the pattern tries them.
PairPronouns == <<sIch, sDu, sEr, sSie, sEs, sWir, sIhr, sSieFormal>>

sSein == <<"s","e","i","n">>
sHaben == <<"h","a","b","e","n">>
sWerden == <<"w","e","r","d","e","n">>
MarkersSein == { <<"b","i","n">>, <<"b","i","s","t">>, <<"i","s","t">>,
                 <<"s","i","n","d">>, <<"s","e","i","d">> }
MarkersHaben == { <<"h","a","b","e">>, <<"h","a","s","t">>, <<"h","a","t">>, sHaben }
MarkersWerden == { <<"w","e","r","d","e">>, <<"w","i","r","s","t">>,
                   <<"w","i","r","d">>, sWerden }
IRREGULAR_MARKERS == MarkersSein \cup MarkersHaben \cup MarkersWerden

DictHas(d, key) == \E i \in 1..Len(d) : d[i][1] = key
\* d.get(key) or ""
DictGet(d, key) == IF DictHas(d, key)
                   THEN d[CHOOSE i \in 1..Len(d) : d[i][1] = key][2]
                   ELSE <<>>
\* d[key] = v: a new key goes to the end, a known key keeps its place.
DictSet(d, key, v) == IF DictHas(d, key)
                      THEN [i \in 1..Len(d) |-> IF d[i][1] = key THEN <<key, v>> ELSE d[i]]
                      ELSE Append(d, <<key, v>>)
\* d.items() as a set; sorted(d.items()) of two dicts are equal iff these are.
DictItems(d) == { d[i] : i \in 1..Len(d) }

StartsWith(s, p) == Len(s) >= Len(p) /\ SubSeq(s, 1, Len(p)) = p
EndsWith(s, c) == s # <<>> /\ s[Len(s)] = c

\* What group 2 of RE_PRONOUN_PAIR captures from the text after the pronoun,
\* <<>> when "\s+(.+?)\s*$" does not match it.  \s+ is greedy and (.+?) lazy:
\* the group starts after the leading whitespace and stops before the trailing
\* whitespace; when only whitespace follows the pronoun, \s+ gives one
\* character back and the group is that character.
PairGroup2(rest) ==
    LET body == LStripSet(rest, {" ", "\t"})
    IN  IF rest = <<>> \/ ~IsSpace(rest[1]) THEN <<>>
        ELSE IF body # <<>> THEN RStripSet(body, {" ", "\t"})
        ELSE IF Len(rest) >= 2 THEN <<rest[Len(rest)]>>
        ELSE <<>>

\* RE_PRONOUN_PAIR.match(s): [ok, p (group 1), form (group 2)].
RE_PRONOUN_PAIR(s) ==
    LET fits(i) == /\ StartsWith(s, PairPronouns[i])
                   /\ PairGroup2(SubSeq(s, Len(PairPronouns[i]) + 1, Len(s))) # <<>>
    IN  IF \E i \in 1..Len(PairPronouns) : fits(i)
        THEN LET i == CHOOSE j \in 1..Len(PairPronouns) :
                          fits(j) /\ \A h \in 1..(j - 1) : ~fits(h)
             IN  [ok |-> TRUE, p |-> PairPronouns[i],
                  form |-> PairGroup2(SubSeq(s, Len(PairPronouns[i]) + 1, Len(s)))]
        ELSE [ok |-> FALSE, p |-> <<>>, form |-> <<>>]

normalize_pronoun(p) == IF p = sSieFormal THEN sSieFormal ELSE Lower(p)

looks_like_pronoun_line(text) == RE_PRONOUN_PAIR(Strip(text)).ok

\* flush(): the cluster is emitted when it has at least 4 slots, then emptied.
\* A loop state is [current, tables].
flush_any_cluster(st) ==
    [current |-> <<>>,
     tables |-> IF Len(st.current) >= 1 THEN Append(st.tables, st.current) ELSE st.tables]

flush(st) ==
    [current |-> <<>>,
     tables |-> IF Len(st.current) >= 4 THEN Append(st.tables, st.current) ELSE st.tables]

\* The "sie" branch without the test on the final "t".
sie_branch_er_only(cur, form) ==
    LET er_form == Lower(Strip(DictGet(cur, sEr)))
        form_low == Lower(form)
    IN  IF ~DictHas(cur, sSieSg) /\ (er_form # <<>> /\ form_low = er_form)
        THEN DictSet(cur, sSieSg, form)
        ELSE DictSet(cur, sSiePl, form)

\* The "sie" branch without the test that sie_sg is still free.
sie_branch_sg_rewritten(cur, form) ==
    LET er_form == Lower(Strip(DictGet(cur, sEr)))
        form_low == Lower(form)
    IN  IF (er_form # <<>> /\ form_low = er_form) \/ EndsWith(form_low, "t")
        THEN DictSet(cur, sSieSg, form)
        ELSE DictSet(cur, sSiePl, form)

\* Lines 85-94: the slot an ambiguous "sie" line goes to.
sie_branch(cur, form) ==
    LET er_form == Lower(Strip(DictGet(cur, sEr)))
        form_low == Lower(form)
    IN  IF ~DictHas(cur, sSieSg)
           /\ ((er_form # <<>> /\ form_low = er_form) \/ EndsWith(form_low, "t"))
        THEN DictSet(cur, sSieSg, form)
        ELSE DictSet(cur, sSiePl, form)

\* One pass of the loop of extract_tables_from_group (lines 67-94).
loop_body(st, line) ==
    LET m == RE_PRONOUN_PAIR(Strip(line))
        form == Strip(m.form)
        p == normalize_pronoun(m.p)
    IN  IF ~m.ok THEN flush(st)
        ELSE IF p # sSie THEN [st EXCEPT !.current = DictSet(st.current, p, form)]
        ELSE [st EXCEPT !.current = sie_branch(st.current, form)]

\* Lines 98-106: the first table of every set of items is kept.
RECURSIVE uniq_tables(_, _)
uniq_tables(ts, uniq) ==
    IF ts = <<>> THEN uniq
    ELSE uniq_tables(Tail(ts),
                     IF \E i \in 1..Len(uniq) : DictItems(uniq[i]) = DictItems(Head(ts))
                     THEN uniq
                     ELSE Append(uniq, Head(ts)))

IsPronounSlot(key) == \E i \in 1..Len(PRONOUN_ORDER) : PRONOUN_ORDER[i] = key

ordered_forms(table) ==
    LET known == SelectSeq(PRONOUN_ORDER, LAMBDA p : DictHas(table, p))
    IN  [i \in 1..Len(known) |-> <<known[i], DictGet(table, known[i])>>]
        \o SelectSeq(table, LAMBDA kv : ~IsPronounSlot(kv[1]))

HasSpace(s) == \E i \in 1..Len(s) : s[i] = " "

\* The lemma guess with rule 4 (ich) tried before rules 2 and 3 (wir, Sie).
guess_lemma_ich_first(table) ==
    LET forms == { Lower(Strip(table[i][2])) :
                     i \in { j \in 1..Len(table) : Strip(table[j][2]) # <<>> } }
        wir == Strip(DictGet(table, sWir))
        sie_form == Strip(DictGet(table, sSieFormal))
        ich == Strip(DictGet(table, sIch))
        filled == SelectSeq(table, LAMBDA kv : Strip(kv[2]) # <<>>)
    IN  IF MarkersSein \cap forms # {} THEN sSein
        ELSE IF MarkersHaben \cap forms # {} THEN sHaben
        ELSE IF MarkersWerden \cap forms # {} THEN sWerden
        ELSE IF ich # <<>> THEN ich
        ELSE IF wir # <<>> /\ ~HasSpace(wir) THEN wir
        ELSE IF sie_form # <<>> /\ ~HasSpace(sie_form) THEN sie_form
        ELSE IF filled # <<>> THEN Strip(filled[1][2])
        ELSE <<>>

guess_lemma(table) ==
    LET forms == { Lower(Strip(table[i][2])) :
                     i \in { j \in 1..Len(table) : Strip(table[j][2]) # <<>> } }
        wir == Strip(DictGet(table, sWir))
        sie_form == Strip(DictGet(table, sSieFormal))
        ich == Strip(DictGet(table, sIch))
        filled == SelectSeq(table, LAMBDA kv : Strip(kv[2]) # <<>>)
    IN  IF MarkersSein \cap forms # {} THEN sSein
        ELSE IF MarkersHaben \cap forms # {} THEN sHaben
        ELSE IF MarkersWerden \cap forms # {} THEN sWerden
        ELSE IF wir # <<>> /\ ~HasSpace(wir) THEN wir
        ELSE IF sie_form # <<>> /\ ~HasSpace(sie_form) THEN sie_form
        ELSE IF ich # <<>> THEN ich
        ELSE IF filled # <<>> THEN Strip(filled[1][2])
        ELSE <<>>

Prefix(s, n) == SubSeq(s, 1, IF Len(s) < n THEN Len(s) ELSE n)
HasUmlaut(s) == \E i \in 1..Len(s) : s[i] \in {"ä", "ö", "ü"}

detect_pattern(table) ==
    LET forms == { Lower(table[i][2]) : i \in { j \in 1..Len(table) : table[j][2] # <<>> } }
        wir == Lower(DictGet(table, sWir))
        du == Lower(DictGet(table, sDu))
        er == Lower(DictGet(table, sEr))
        wir4 == Prefix(wir, 4)
    IN  IF forms \cap IRREGULAR_MARKERS # {} THEN "irregular"
        ELSE IF wir = <<>> THEN "unknown"
        ELSE IF du # <<>> /\ Prefix(du, 4) # wir4 THEN "stem_change"
        ELSE IF er # <<>> /\ Prefix(er, 4) # wir4 THEN "stem_change"
        ELSE IF HasUmlaut(du \o er) /\ ~HasUmlaut(wir) THEN "stem_change"
        ELSE "regular"

\* int(slide) for a string of decimal digits.
RECURSIVE IntOf(_)
IntOf(s) == IF s = <<>> THEN 0
            ELSE 10 * IntOf(SubSeq(s, 1, Len(s) - 1)) + (IndexOf(DigitChars, s[Len(s)]) - 1)

s__slide == <<"_","_","s","l","i","d","e">>

\* Lines 212-222 of main(): the record appended for one table of a unit.
table_record(ppt, slide, t) ==
    [table_id |-> ppt \o s__slide \o slide,
     lemma_guess |-> guess_lemma(t),
     pattern_guess |-> detect_pattern(t),
     forms |-> ordered_forms(t),
     source |-> [ppt |-> ppt, slide |-> IntOf(slide)]]

(***************************************************************************)
(* The extractor's inputs: the lines of one slide unit.                    *)
(***************************************************************************)
wGehe == <<"g","e","h","e">>
wGehst == <<"g","e","h","s","t">>
wGeht == <<"g","e","h","t">>
wGehen == <<"g","e","h","e","n">>
wSpreche == <<"s","p","r","e","c","h","e">>
wSprichst == <<"s","p","r","i","c","h","s","t">>
wSpricht == <<"s","p","r","i","c","h","t">>
wSprechen == <<"s","p","r","e","c","h","e","n">>

PLine(p, form) == p \o <<" ">> \o form

\* "ich gehe", "du gehst", "er geht", "wir gehen", "ihr geht", "sie gehen"
GehenLines == << PLine(sIch, wGehe), PLine(sDu, wGehst), PLine(sEr, wGeht),
                 PLine(sWir, wGehen), PLine(sIhr, wGeht), PLine(sSie, wGehen) >>

\* The lines of the "sprechen" cluster; the first three are the ambiguous pair
\* and the "er" line, the others fill the cluster up.
SprechenLines == << PLine(sSie, wSprechen), PLine(sSie, wSpricht), PLine(sEr, wSpricht),
                    PLine(sIch, wSpreche), PLine(sDu, wSprichst), PLine(sWir, wSprechen) >>

Permutations6 == { f \in [1..6 -> 1..6] : \A i, j \in 1..6 : f[i] = f[j] => i = j }
SprechenOrders == { [i \in 1..6 |-> SprechenLines[f[i]]] : f \in Permutations6 }

\* A heading, which is no pronoun line.
HeadingLine == <<"V","e","r","b","e","n">>

\* Lines a freely composed unit is made of: five slots of "gehen" (one padded
\* with blanks), both readings of "sie", and a heading.
LinePool == { PLine(sIch, wGehe), PLine(sDu, wGehst), PLine(sEr, wGeht),
              PLine(sWir, wGehen), <<" ">> \o sIhr \o <<" ", "\t">> \o wGeht \o <<" ">>,
              PLine(sSie, wGeht), PLine(sSie, wGehen), HeadingLine }

SeqsUpTo(S, n) == UNION { [1..m -> S] : m \in 0..n }

\* A three-slot cluster, a heading, then a four-slot cluster.
TwoClusterLines == << PLine(sIch, wGehe), PLine(sDu, wGehst), PLine(sEr, wGeht), HeadingLine,
                      PLine(sIch, wGehe), PLine(sDu, wGehst), PLine(sEr, wGeht),
                      PLine(sWir, wGehen) >>

\* Two tables one after the other, with no other line between them.
AdjacentTablesLines == << PLine(sIch, wGehe), PLine(sDu, wGehst), PLine(sEr, wGeht),
                          PLine(sWir, wGehen),
                          PLine(sIch, wSpreche), PLine(sDu, wSprichst), PLine(sEr, wSpricht),
                          PLine(sWir, wSprechen) >>

\* The lines of the "können" cluster: the "er" line, the "sie" line with the
\* same form, the "sie" line with another form, and three lines that fill
\* the cluster up.  No form of the singular ends in "t".
wKann == <<"k","a","n","n">>
wKannst == <<"k","a","n","n","s","t">>
wKoennen == <<"k","ö","n","n","e","n">>
KoennenLines == << PLine(sEr, wKann), PLine(sSie, wKann), PLine(sSie, wKoennen),
                   PLine(sIch, wKann), PLine(sDu, wKannst), PLine(sWir, wKoennen) >>
KoennenOrders == { [i \in 1..6 |-> KoennenLines[f[i]]] : f \in Permutations6 }

\* Two pronoun lines, a heading, two more pronoun lines.
HeadingInsideLines == << PLine(sIch, wGehe), PLine(sDu, wGehst), HeadingLine,
                         PLine(sEr, wGeht), PLine(sWir, wGehen) >>

UnitInputs == SeqsUpTo(LinePool, MaxLines) \cup {GehenLines, TwoClusterLines}
              \cup SprechenOrders \cup {AdjacentTablesLines, HeadingInsideLines}
              \cup KoennenOrders

pptA == <<"A",".","p","p","t","x">>
Units == { [ppt |-> pptA, slide |-> <<"3">>] }

(***************************************************************************)
(* The extractor's steps.                                                  *)
(***************************************************************************)
ExtractorInit ==
    /\ unit \in Units
    /\ unit_lines \in UnitInputs
    /\ xpc = "start"
    /\ lines = <<>>
    /\ xi = 0
    /\ current = <<>>
    /\ tables = <<>>
    /\ out_tables = <<>>

\* main(), lines 206-211, with group_by_ppt_slide's trimming (lines 43-46):
\* the unit's pronoun lines go to extract_tables_from_group when there are at
\* least four of them, otherwise the unit is skipped.
MainSelect ==
    /\ xpc = "start"
    /\ LET kept == SelectSeq([i \in 1..Len(unit_lines) |-> Strip(unit_lines[i])],
                             LAMBDA t : t # <<>>)
           pronoun_lines == SelectSeq(kept, looks_like_pronoun_line)
       IN  IF Len(pronoun_lines) < 4
           THEN xpc' = "done" /\ UNCHANGED lines
           ELSE xpc' = "loop" /\ lines' = pronoun_lines
    /\ UNCHANGED <<unit, unit_lines, xi, current, tables, out_tables>>
    /\ UNCHANGED <<bvars, vvars, fvars, dvars, lvars, pvars, gvars, cvars>>

\* extract_tables_from_group() called on the unit's lines as they are.
GroupCall ==
    /\ xpc = "start"
    /\ xpc' = "loop"
    /\ lines' = unit_lines
    /\ UNCHANGED <<unit, unit_lines, xi, current, tables, out_tables>>
    /\ UNCHANGED <<bvars, vvars, fvars, dvars, lvars, pvars, gvars, cvars>>

\* One line of the loop, lines 67-94.
ExtractLine ==
    /\ xpc = "loop"
    /\ xi < Len(lines)
    /\ LET st == loop_body([current |-> current, tables |-> tables], lines[xi + 1])
       IN  current' = st.current /\ tables' = st.tables
    /\ xi' = xi + 1
    /\ UNCHANGED <<unit, unit_lines, xpc, lines, out_tables>>
    /\ UNCHANGED <<bvars, vvars, fvars, dvars, lvars, pvars, gvars, cvars>>

\* The end of the loop: the last flush (line 96), the removal of exact
\* duplicates (98-106) and main()'s record for every table (212-222).
ExtractReturn ==
    /\ xpc = "loop"
    /\ xi = Len(lines)
    /\ LET st == flush([current |-> current, tables |-> tables])
           uniq == uniq_tables(st.tables, <<>>)
       IN  /\ current' = st.current
           /\ tables' = st.tables
           /\ out_tables' = [i \in 1..Len(uniq) |->
                                table_record(unit.ppt, unit.slide, uniq[i])]
    /\ xpc' = "done"
    /\ UNCHANGED <<unit, unit_lines, lines, xi>>
    /\ UNCHANGED <<bvars, vvars, fvars, dvars, lvars, pvars, gvars, cvars>>

InitExtractor ==
    /\ BuilderIdle /\ ValidatorIdle
    /\ ExtractorInit /\ TablesFileIdle /\ DedupeIdle /\ LinkerIdle /\ AssignerIdle
    /\ RunIdle /\ CallIdle

NextExtractor ==
    \/ MainSelect
    \/ GroupCall
    \/ ExtractLine
    \/ ExtractReturn

\* The conjugation-table extractor on one slide unit.
SpecExtractor == InitExtractor /\ [][NextExtractor]_vars

(***************************************************************************)
(* Properties of the extractor.                                            *)
(***************************************************************************)
ExtractorEnded == xpc = "done"

DictKeys(d) == { d[i][1] : i \in 1..Len(d) }

\* At least four distinct slots, every key a pronoun slot held once, every
\* form non-empty.
FourFilledSlots(t) ==
    /\ Cardinality(DictKeys(t)) >= 4
    /\ Cardinality(DictKeys(t)) = Len(t)
    /\ \A i \in 1..Len(t) : IsPronounSlot(t[i][1]) /\ Strip(t[i][2]) # <<>>

\* C11: every cluster the extractor emits, and every table it returns, has at
\* least four distinct filled pronoun slots, each with a non-empty form; a
\* cluster with fewer than four slots is never among them.
C11_TablesHaveFourSlots ==
    /\ \A i \in 1..Len(tables) : FourFilledSlots(tables[i])
    /\ \A i \in 1..Len(out_tables) : FourFilledSlots(out_tables[i].forms)

\* The three-slot cluster before the heading was dropped, the four-slot
\* cluster after it was returned.
C11_Witness ==
    /\ ExtractorEnded
    /\ unit_lines = TwoClusterLines
    /\ lines = unit_lines
    /\ Len(out_tables) = 1
    /\ Len(out_tables[1].forms) = 4

C13_SieSlotsOrderFree ==
    (ExtractorEnded /\ unit_lines \in SprechenOrders)
    => /\ Len(tables) = 1
       /\ DictGet(tables[1], sSieSg) = wSpricht
       /\ DictGet(tables[1], sSiePl) = wSprechen
       /\ Len(out_tables) = 1
       /\ DictGet(out_tables[1].forms, sSieSg) = wSpricht
       /\ DictGet(out_tables[1].forms, sSiePl) = wSprechen

\* Both "sie" lines are met before the "er" line.
C13_Witness ==
    /\ ExtractorEnded
    /\ unit_lines = SprechenLines
    /\ Len(tables) = 1
    /\ DictGet(tables[1], sSieSg) = wSpricht
    /\ DictGet(tables[1], sSiePl) = wSprechen

\* The loop is about to consume a line that matches the pronoun pattern.
AtPronounLine == xpc = "loop" /\ xi < Len(lines) /\ RE_PRONOUN_PAIR(Strip(lines[xi + 1])).ok
NextPronoun == normalize_pronoun(RE_PRONOUN_PAIR(Strip(lines[xi + 1])).p)
NextForm == Strip(RE_PRONOUN_PAIR(Strip(lines[xi + 1])).form)

\* C22: a line with a non-ambiguous pronoun whose slot is already filled
\* flushes the current cluster (kept as a table when it has at least four
\* slots) and its form becomes the only slot of a fresh cluster.
C22_FilledSlotStartsNewCluster ==
    [][ (AtPronounLine /\ xi' = xi + 1 /\ NextPronoun # sSie
         /\ DictHas(current, NextPronoun))
        => /\ current' = << <<NextPronoun, NextForm>> >>
           /\ tables' = flush([current |-> current, tables |-> tables]).tables ]_vars

\* The slot kv = <<key, form>> is what the pronoun line gives.
SlotFromLine(kv, line) ==
    LET m == RE_PRONOUN_PAIR(Strip(line))
        p == normalize_pronoun(m.p)
    IN  /\ m.ok
        /\ Strip(m.form) = kv[2]
        /\ kv[1] = p \/ (p = sSie /\ kv[1] \in {sSieSg, sSiePl})

\* All slots of the table come from one run of pronoun lines of the unit
\* that no non-matching line interrupts.
WithinOneRun(forms) ==
    \E a, b \in 1..Len(unit_lines) :
        /\ \A j \in a..b : looks_like_pronoun_line(unit_lines[j])
        /\ \A i \in 1..Len(forms) : \E j \in a..b : SlotFromLine(forms[i], unit_lines[j])

\* C23: a line of the unit that is no pronoun+form pair ends the cluster, so
\* every table of the output takes its forms from pronoun lines with no
\* non-matching line between them.
C23_NoTableAcrossNonMatchingLine ==
    ExtractorEnded => \A i \in 1..Len(out_tables) : WithinOneRun(out_tables[i].forms)

\* The loop consumes a "sie" line in this step.
SieLineStep == AtPronounLine /\ xi' = xi + 1 /\ NextPronoun = sSie

\* The slot the sentence sends the form of the next "sie" line to.
SieTarget ==
    LET low == Lower(NextForm)
    IN  IF /\ ~DictHas(current, sSieSg)
           /\ \/ (DictHas(current, sEr) /\ low = Lower(DictGet(current, sEr)))
              \/ low[Len(low)] = "t"
        THEN sSieSg
        ELSE sSiePl

\* C24: a "sie" line puts its form in sie_sg when sie_sg is free and the
\* lowercased form equals the lowercased er form or ends in "t", and in
\* sie_pl otherwise, over whatever sie_pl held; no other slot changes, a
\* filled sie_sg keeps its form, and no cluster is flushed.
C24_SieLineSlot ==
    [][ SieLineStep
        => /\ DictGet(current', SieTarget) = NextForm
           /\ DictKeys(current') = DictKeys(current) \cup {SieTarget}
           /\ \A key \in DictKeys(current) \ {SieTarget} :
                  DictGet(current', key) = DictGet(current, key)
           /\ DictHas(current, sSieSg)
                  => DictGet(current', sSieSg) = DictGet(current, sSieSg)
           /\ tables' = tables ]_vars

\* "sie geht" went to sie_sg, "sie gehen" to sie_pl, and a second "sie geht"
\* replaced the form in sie_pl although it ends in "t", sie_sg being filled.
C24_Witness ==
    /\ xpc = "loop"
    /\ xi = 3
    /\ lines = << PLine(sSie, wGeht), PLine(sSie, wGehen), PLine(sSie, wGeht) >>
    /\ current = << <<sSieSg, wGeht>>, <<sSiePl, wGeht>> >>
    /\ tables = <<>>

\* The two slots a table holds for "sie": each one absent or a form.
SieSlots(t) ==
    << IF DictHas(t, sSieSg) THEN << DictGet(t, sSieSg) >> ELSE <<>>,
       IF DictHas(t, sSiePl) THEN << DictGet(t, sSiePl) >> ELSE <<>> >>

\* C30: the "koennen" cluster has the line "er kann", the line "sie kann"
\* (the er form) and the line "sie koennen" (another form); in whatever order
\* its lines are met, the table ends with the same two "sie" slots, those of
\* the order that meets "er kann" first: sie_sg = "kann", sie_pl = "koennen".
C30_SieSlotsSameInEveryOrder ==
    (ExtractorEnded /\ unit_lines \in KoennenOrders)
    => /\ Len(tables) = 1
       /\ SieSlots(tables[1]) = << << wKann >>, << wKoennen >> >>

(***************************************************************************)
(* The extractor's main() over all units of items.csv.                     *)
(***************************************************************************)
\* Largest number of (ppt, slide) units of a run.
MaxUnits == 2

\* The loop of lines 67-94 over all lines.
RECURSIVE scan_lines(_, _)
scan_lines(st, ls) ==
    IF ls = <<>> THEN st ELSE scan_lines(loop_body(st, Head(ls)), Tail(ls))

extract_tables_from_group(ls) ==
    uniq_tables(flush(scan_lines([current |-> <<>>, tables |-> <<>>], ls)).tables, <<>>)

\* The body of main()'s loop without the selection of the pronoun lines.
main_unit_unfiltered(out, u) ==
    LET ts == IF Len(SelectSeq(u.lines, looks_like_pronoun_line)) < 4
              THEN <<>>
              ELSE extract_tables_from_group(u.lines)
    IN  out \o [i \in 1..Len(ts) |-> table_record(u.ppt, u.slide, ts[i])]

\* Lines 207-222: what one unit adds to out_tables.
main_unit(out, u) ==
    LET pronoun_lines == SelectSeq(u.lines, looks_like_pronoun_line)
        ts == IF Len(pronoun_lines) < 4
              THEN <<>>
              ELSE extract_tables_from_group(pronoun_lines)
    IN  out \o [i \in 1..Len(ts) |-> table_record(u.ppt, u.slide, ts[i])]

pptB == <<"B",".","p","p","t","x">>
UnitKeys == { <<pptA, <<"3">> >>, <<pptA, <<"1","2">> >>, <<pptB, <<"3">> >> }

\* A complete table, a heading and another complete table.
TablesAroundHeadingLines ==
    << PLine(sIch, wGehe), PLine(sDu, wGehst), PLine(sEr, wGeht), PLine(sWir, wGehen),
       HeadingLine,
       PLine(sIch, wSpreche), PLine(sDu, wSprichst), PLine(sEr, wSpricht),
       PLine(sWir, wSprechen) >>

\* The lines of a unit: as grouped by group_by_ppt_slide, trimmed and not empty.
UnitLineValues == { GehenLines, SprechenLines, TwoClusterLines, AdjacentTablesLines,
                    HeadingInsideLines, TablesAroundHeadingLines,
                    << PLine(sIch, wGehe), HeadingLine, PLine(sDu, wGehst) >> }

UnitValues == { [ppt |-> key[1], slide |-> key[2], lines |-> ls] :
                  key \in UnitKeys, ls \in UnitLineValues }

\* group_by_ppt_slide (lines 38-47): a dict, so no (ppt, slide) key twice.
GroupedValues ==
    { g \in SeqsUpTo(UnitValues, MaxUnits) :
        \A i, j \in 1..Len(g) :
            (g[i].ppt = g[j].ppt /\ g[i].slide = g[j].slide) => i = j }

RunInit ==
    /\ grouped \in GroupedValues
    /\ gi = 0
    /\ unit = [ppt |-> <<>>, slide |-> <<>>]
    /\ unit_lines = <<>>
    /\ xpc = "units"
    /\ lines = <<>>
    /\ xi = 0
    /\ current = <<>>
    /\ tables = <<>>
    /\ out_tables = <<>>
    /\ tfile = <<>>
    /\ tfile0 = <<>>

\* One pass of main()'s loop over the units, lines 206-222.
MainUnit ==
    /\ xpc = "units"
    /\ gi < Len(grouped)
    /\ out_tables' = main_unit(out_tables, grouped[gi + 1])
    /\ gi' = gi + 1
    /\ UNCHANGED <<grouped, unit, unit_lines, xpc, lines, xi, current, tables>>
    /\ UNCHANGED <<bvars, vvars, fvars, dvars, lvars, pvars, cvars>>

\* Lines 224-238: the tables are written to conjugation_tables.yaml.
MainWrite ==
    /\ xpc = "units"
    /\ gi = Len(grouped)
    /\ tfile' = out_tables
    /\ xpc' = "done"
    /\ UNCHANGED <<grouped, gi, unit, unit_lines, lines, xi, current, tables, out_tables>>
    /\ UNCHANGED <<tfile0, bvars, vvars, dvars, lvars, pvars, cvars>>

InitExtractorRun ==
    /\ BuilderIdle /\ ValidatorIdle
    /\ RunInit /\ DedupeIdle /\ LinkerIdle /\ AssignerIdle /\ CallIdle

NextExtractorRun ==
    \/ MainUnit
    \/ MainWrite

\* A full run of the extractor over the units of items.csv.
SpecExtractorRun == InitExtractorRun /\ [][NextExtractorRun]_vars

(***************************************************************************)
(* Properties of a full run of the extractor.                              *)
(***************************************************************************)
UnitTableId(u) == u.ppt \o s__slide \o u.slide

\* C26: every unit main() has handled has at most one table in out_tables,
\* and no two tables of out_tables, or of the file written, have the same
\* table_id.
C26_OneTablePerUnit ==
    /\ \A n \in 1..Len(grouped) :
           Cardinality({ i \in 1..Len(out_tables) :
                           out_tables[i].table_id = UnitTableId(grouped[n]) }) <= 1
    /\ \A i, j \in 1..Len(out_tables) :
           out_tables[i].table_id = out_tables[j].table_id => i = j
    /\ \A i, j \in 1..Len(tfile) : tfile[i].table_id = tfile[j].table_id => i = j

\* A unit with two complete tables around a heading gave one table, and so
\* did a second unit.
C26_Witness ==
    /\ xpc = "done"
    /\ Len(grouped) = 2
    /\ grouped[1].lines = TablesAroundHeadingLines
    /\ Len(tfile) = 2
    /\ tfile[1].table_id = UnitTableId(grouped[1])
    /\ tfile[2].table_id = UnitTableId(grouped[2])

(***************************************************************************)
(* conjugation/dedupe_conjugation_tables.py                                *)
(* A table is a record table_id, lemma_guess, pattern_guess, forms,        *)
(* source, sources, lemma_lex_id; an absent lemma_guess or lemma_lex_id is *)
(* the empty string, an absent source or sources key is NoKey.             *)
(***************************************************************************)
\* Largest number of tables in the table document.
MaxTables == 3

NoKey == [key |-> FALSE]
\* A provenance mapping {ppt, slide}.
SrcRef(ppt, slide) == [key |-> TRUE, dict |-> TRUE, ppt |-> ppt, slide |-> slide]
\* A "source" value that is no mapping (a plain string).
NonDictSource == [key |-> TRUE, dict |-> FALSE]
\* A "sources" value that is a list of provenance mappings.
SrcList(items) == [key |-> TRUE, list |-> TRUE, items |-> items]
\* A "sources" value that is no list.
NonListSources == [key |-> TRUE, list |-> FALSE]

\* forms_signature without the trimming of the forms.
forms_signature_untrimmed(forms) ==
    { <<forms[i][1], forms[i][2]>> : i \in 1..Len(forms) }

\* forms_signature: the (slot, trimmed form) pairs.  The code sorts them into
\* a tuple; the slots of a dict are distinct, so two sorted tuples are equal
\* exactly when the sets of pairs are.
forms_signature(forms) ==
    { <<forms[i][1], Strip(forms[i][2])>> : i \in 1..Len(forms) }

\* Lines 24-26: sig = (lemma, forms_signature(forms)).
table_sig(t) == << Strip(t.lemma_guess), forms_signature(t.forms) >>

\* normalize_sources that reads the sources list only.
normalize_sources_list_only(t) ==
    IF t.sources.key /\ t.sources.list THEN t.sources.items
    ELSE <<>>

\* Lines 29-33: the provenance list a table brings along.
normalize_sources(t) ==
    IF t.sources.key /\ t.sources.list THEN t.sources.items
    ELSE IF t.source.key /\ t.source.dict THEN << t.source >>
    ELSE <<>>

\* Lines 35-36: the source key is dropped, sources is set.
with_sources(t, sources) == [t EXCEPT !.source = NoKey, !.sources = SrcList(sources)]

SrcKey(s) == << s.ppt, s.slide >>

\* The merge without the look-up in seen.
RECURSIVE merge_sources_unseen(_, _)
merge_sources_unseen(existing_sources, sources) ==
    IF sources = <<>> THEN existing_sources
    ELSE merge_sources_unseen(
             IF ~Head(sources).dict THEN existing_sources
             ELSE Append(existing_sources, Head(sources)),
             Tail(sources))

\* Lines 43-54: every incoming mapping whose (ppt, slide) is not yet in the
\* kept list is appended to it.
RECURSIVE merge_sources(_, _)
merge_sources(existing_sources, sources) ==
    IF sources = <<>> THEN existing_sources
    ELSE LET s == Head(sources)
             seen == { SrcKey(existing_sources[i]) :
                         i \in { j \in 1..Len(existing_sources) : existing_sources[j].dict } }
         IN  merge_sources(
                 IF ~s.dict \/ SrcKey(s) \in seen THEN existing_sources
                 ELSE Append(existing_sources, s),
                 Tail(sources))

\* One pass of the loop (lines 23-54) over the dict merged (mg), a sequence of
\* [sig, t] in insertion order.
dedupe_step(mg, t0) ==
    LET sig == table_sig(t0)
        sources == normalize_sources(t0)
        t == with_sources(t0, sources)
    IN  IF ~\E i \in 1..Len(mg) : mg[i].sig = sig
        THEN Append(mg, [sig |-> sig, t |-> t])
        ELSE [i \in 1..Len(mg) |->
                IF mg[i].sig = sig
                THEN [mg[i] EXCEPT !.t.sources =
                         SrcList(merge_sources(mg[i].t.sources.items, sources))]
                ELSE mg[i]]

\* list(merged.values()) back to front.
merged_values_reversed(mg) == [i \in 1..Len(mg) |-> mg[Len(mg) + 1 - i].t]

\* Line 56: list(merged.values()).
merged_values(mg) == [i \in 1..Len(mg) |-> mg[i].t]

(***************************************************************************)
(* The deduplicator's inputs: the table document.                          *)
(***************************************************************************)
FormsGehen == << <<sIch, wGehe>>, <<sDu, wGehst>> >>
\* The same forms in another key order, one of them padded.
FormsGehenReordered == << <<sDu, wGehst \o <<" ">> >>, <<sIch, wGehe>> >>
FormsOther == << <<sIch, wGehe>>, <<sDu, wGeht>> >>

TableIdOf(n) == pptA \o s__slide \o DecStr(n)
idGehen == sLEX \o sDot \o Upper(sVerb) \o sDot \o Upper(wGehen)

\* As the extractor writes a table.
TabExtracted ==
    [table_id |-> TableIdOf(1), lemma_guess |-> wGehen, pattern_guess |-> "stem_change",
     forms |-> FormsGehen, source |-> SrcRef(pptA, 1), sources |-> NoKey,
     lemma_lex_id |-> <<>>]
\* The same signature and the same provenance under other metadata.
TabTwin ==
    [table_id |-> TableIdOf(2), lemma_guess |-> <<" ">> \o wGehen, pattern_guess |-> "regular",
     forms |-> FormsGehenReordered, source |-> SrcRef(pptA, 1), sources |-> NoKey,
     lemma_lex_id |-> idGehen]
\* As the deduplicator writes a table: provenance overlapping TabExtracted's.
TabMerged ==
    [table_id |-> TableIdOf(3), lemma_guess |-> wGehen, pattern_guess |-> "stem_change",
     forms |-> FormsGehen, source |-> NoKey,
     sources |-> SrcList(<< SrcRef(pptA, 1), SrcRef(pptA, 2) >>), lemma_lex_id |-> <<>>]
\* A sources value that is no list beside a source mapping.
TabBothKeys ==
    [table_id |-> TableIdOf(4), lemma_guess |-> wGehen, pattern_guess |-> "unknown",
     forms |-> FormsGehen, source |-> SrcRef(pptA, 2), sources |-> NonListSources,
     lemma_lex_id |-> <<>>]
\* Another signature.
TabOther ==
    [table_id |-> TableIdOf(5), lemma_guess |-> wGehen, pattern_guess |-> "regular",
     forms |-> FormsOther, source |-> SrcRef(pptA, 2), sources |-> NoKey,
     lemma_lex_id |-> <<>>]
\* No lemma_guess, a source that is no mapping.
TabNoLemma ==
    [table_id |-> TableIdOf(6), lemma_guess |-> <<>>, pattern_guess |-> "unknown",
     forms |-> FormsGehen, source |-> NonDictSource, sources |-> NoKey,
     lemma_lex_id |-> <<>>]

TableValues == { TabExtracted, TabTwin, TabMerged, TabBothKeys, TabOther, TabNoLemma }

TableDocs == SeqsUpTo(TableValues, MaxTables)

NoOutput == [ended |-> FALSE]

(***************************************************************************)
(* The deduplicator's steps.                                               *)
(***************************************************************************)
DedupeInit ==
    /\ tfile \in TableDocs
    /\ tfile0 = tfile
    /\ dpc = "start"
    /\ dtables = <<>>
    /\ di = 0
    /\ merged = <<>>
    /\ druns = 0
    /\ dfirst = NoOutput

\* Lines 15-21: the document is read.
DedupeRead ==
    /\ dpc = "start"
    /\ dtables' = tfile
    /\ merged' = <<>>
    /\ di' = 0
    /\ dpc' = "loop"
    /\ UNCHANGED <<tfile, tfile0, druns, dfirst>>
    /\ UNCHANGED <<bvars, vvars, xvars, lvars, pvars, gvars, cvars>>

\* Lines 23-54: one table of the loop.
DedupeTable ==
    /\ dpc = "loop"
    /\ di < Len(dtables)
    /\ merged' = dedupe_step(merged, dtables[di + 1])
    /\ di' = di + 1
    /\ UNCHANGED <<tfile, tfile0, dpc, dtables, druns, dfirst>>
    /\ UNCHANGED <<bvars, vvars, xvars, lvars, pvars, gvars, cvars>>

\* Lines 56-63: the kept tables are written back in place.
DedupeWrite ==
    /\ dpc = "loop"
    /\ di = Len(dtables)
    /\ tfile' = merged_values(merged)
    /\ dpc' = "done"
    /\ druns' = druns + 1
    /\ dfirst' = IF druns = 0 THEN [ended |-> TRUE, tables |-> tfile'] ELSE dfirst
    /\ UNCHANGED <<tfile0, dtables, di, merged>>
    /\ UNCHANGED <<bvars, vvars, xvars, lvars, pvars, gvars, cvars>>

\* The deduplicator is applied again, to the document it wrote.
DedupeAgain ==
    /\ dpc = "done"
    /\ druns = 1
    /\ dpc' = "start"
    /\ UNCHANGED <<tfile, tfile0, dtables, di, merged, druns, dfirst>>
    /\ UNCHANGED <<bvars, vvars, xvars, lvars, pvars, gvars, cvars>>

InitDedupe ==
    /\ BuilderIdle /\ ValidatorIdle /\ ExtractorIdle /\ DedupeInit /\ LinkerIdle
    /\ AssignerIdle /\ RunIdle /\ CallIdle

NextDedupe ==
    \/ DedupeRead
    \/ DedupeTable
    \/ DedupeWrite
    \/ DedupeAgain

\* The table deduplicator applied to a table document, then to its own output.
SpecDedupe == InitDedupe /\ [][NextDedupe]_vars

(***************************************************************************)
(* Properties of the deduplicator.                                         *)
(***************************************************************************)
\* The signature of a table as section 4.5 states it.
TrimmedPairs(t) == { << t.forms[i][1], Strip(t.forms[i][2]) >> : i \in 1..Len(t.forms) }
Signature(t) == << Strip(t.lemma_guess), TrimmedPairs(t) >>

\* C14: applying the deduplicator to the document it wrote gives that same
\* document again: the same tables, in the same order, with the same sources.
C14_DedupeIdempotent ==
    (dpc = "done" /\ druns = 2) => (dfirst.ended /\ tfile = dfirst.tables)

\* The first application merged tables, the second one has ended.
C14_Witness ==
    /\ dpc = "done"
    /\ druns = 2
    /\ tfile0 = << TabExtracted, TabOther, TabTwin >>
    /\ Len(tfile) = 2
    /\ tfile = dfirst.tables

NoRepeatedPair(srcs) ==
    \A i, j \in 1..Len(srcs) :
        (srcs[i].ppt = srcs[j].ppt /\ srcs[i].slide = srcs[j].slide) => i = j

FirstSeen == { i \in 1..Len(tfile0) :
                 \A j \in 1..(i - 1) : Signature(tfile0[j]) # Signature(tfile0[i]) }

SameMetadata(t, u) ==
    /\ t.table_id = u.table_id
    /\ t.lemma_guess = u.lemma_guess
    /\ t.pattern_guess = u.pattern_guess
    /\ t.forms = u.forms
    /\ t.lemma_lex_id = u.lemma_lex_id

\* C16: after a run no two tables have the same signature, and the tables are
\* the first input tables of each signature, in first-seen order, each with
\* its table_id, lemma_guess, pattern_guess, forms and lemma_lex_id unchanged.
C16_FirstSeenKept ==
    (dpc = "done" /\ druns = 1)
    => /\ \A i, j \in 1..Len(tfile) : Signature(tfile[i]) = Signature(tfile[j]) => i = j
       /\ Len(tfile) = Cardinality(FirstSeen)
       /\ \A n \in 1..Len(tfile) :
              \E i \in FirstSeen :
                  /\ Cardinality({ h \in FirstSeen : h <= i }) = n
                  /\ SameMetadata(tfile[n], tfile0[i])

\* Two signatures, the first of them met again after the second under other
\* metadata, a padded lemma and reordered, padded forms.
C16_Witness ==
    /\ dpc = "done"
    /\ druns = 1
    /\ tfile0 = << TabExtracted, TabOther, TabTwin >>
    /\ Len(tfile) = 2
    /\ tfile[1].table_id = TabExtracted.table_id
    /\ tfile[2].table_id = TabOther.table_id

\* The (ppt, slide) pairs an input table carries: the one of its source
\* mapping and those of the mappings in its sources list.
PairsUnderSource(t) ==
    IF t.source.key /\ t.source.dict THEN { SrcKey(t.source) } ELSE {}
PairsUnderSources(t) ==
    IF t.sources.key /\ t.sources.list
    THEN { SrcKey(t.sources.items[i]) : i \in 1..Len(t.sources.items) }
    ELSE {}
\* The input tables of the first application carry their provenance under
\* one of the two keys, as the extractor and the deduplicator write them.
OneProvenanceKey(t) == PairsUnderSource(t) = {} \/ PairsUnderSources(t) = {}
PairsOfInput(t) == PairsUnderSource(t) \cup PairsUnderSources(t)
PairsOfSignature(sig) ==
    UNION { PairsOfInput(tfile0[i]) : i \in { j \in 1..Len(tfile0) : Signature(tfile0[j]) = sig } }

MaxEntries == 2

\* re.sub(r"\s+", " ", s): every run of whitespace becomes one blank.
RECURSIVE CollapseWhitespace(_)
CollapseWhitespace(s) ==
    IF s = <<>> THEN <<>>
    ELSE IF IsSpace(Head(s))
         THEN <<" ">> \o CollapseWhitespace(LStripSet(Tail(s), {" ", "\t"}))
         ELSE <<Head(s)>> \o CollapseWhitespace(Tail(s))

norm(s) == Lower(CollapseWhitespace(Strip(s)))

\* build_verb_lookup without the test on the category.
RECURSIVE build_lookup_any_category(_, _)
build_lookup_any_category(items, lookup) ==
    IF items = <<>> THEN lookup
    ELSE LET item == Head(items)
         IN  build_lookup_any_category(
                 Tail(items),
                 IF item.text # <<>> /\ item.lex_id # <<>>
                 THEN DictSet(lookup, norm(item.text), item.lex_id)
                 ELSE lookup)

\* build_verb_lookup: normalized text -> lex_id over the verb entries, a later
\* entry replacing an earlier one of the same normalized text.
RECURSIVE build_verb_lookup(_, _)
build_verb_lookup(items, lookup) ==
    IF items = <<>> THEN lookup
    ELSE LET item == Head(items)
         IN  build_verb_lookup(
                 Tail(items),
                 IF item.category = sVerb /\ item.text # <<>> /\ item.lex_id # <<>>
                 THEN DictSet(lookup, norm(item.text), item.lex_id)
                 ELSE lookup)

s__no_lemma__ == <<"_","_","n","o","_","l","e","m","m","a","_","_">>

\* The loop body without the test "already linked".
link_table_always(st, lookup) ==
    LET t == st.tables[st.i + 1]
        lid == DictGet(lookup, norm(t.lemma_guess))
        next == [st EXCEPT !.i = st.i + 1]
    IN  IF t.lemma_guess = <<>>
        THEN [next EXCEPT !.missing = Append(st.missing, << s__no_lemma__, t.table_id >>)]
        ELSE IF lid # <<>>
        THEN [next EXCEPT !.tables[st.i + 1].lemma_lex_id = lid, !.updated = st.updated + 1]
        ELSE [next EXCEPT !.missing = Append(st.missing, << t.lemma_guess, t.table_id >>)]

\* One pass of the loop of main (lines 61-76) on the state
\* [tables, i, updated, missing].
link_table(st, lookup) ==
    LET t == st.tables[st.i + 1]
        lid == DictGet(lookup, norm(t.lemma_guess))
        next == [st EXCEPT !.i = st.i + 1]
    IN  IF t.lemma_guess = <<>>
        THEN [next EXCEPT !.missing = Append(st.missing, << s__no_lemma__, t.table_id >>)]
        ELSE IF t.lemma_lex_id # <<>> THEN next
        ELSE IF lid # <<>>
        THEN [next EXCEPT !.tables[st.i + 1].lemma_lex_id = lid, !.updated = st.updated + 1]
        ELSE [next EXCEPT !.missing = Append(st.missing, << t.lemma_guess, t.table_id >>)]

(***************************************************************************)
(* The linker's inputs: the index and the table document.                  *)
(***************************************************************************)
IndexEntry(category, text, lex_id) == [category |-> category, text |-> text, lex_id |-> lex_id]

idGehen2 == idGehen \o sDot \o <<"2">>
idNounGehen == sLEX \o sDot \o Upper(sNoun) \o sDot \o Upper(wGehen)
idVerbUnknown == sLEX \o sDot \o Upper(sVerb) \o sDot \o sUNKNOWN
idOld == sLEX \o sDot \o Upper(sVerb) \o sDot \o <<"O","L","D">>

\* "Zu  gehen " and "zu\t gehen": one verb text under two spellings.
wZuGehenIndexed == <<"Z","u"," "," ">> \o wGehen \o <<" ">>
wZuGehen == <<"z","u","\t"," ">> \o wGehen
idZuGehen == sLEX \o sDot \o Upper(sVerb) \o sDot \o <<"Z","U">> \o sDot \o Upper(wGehen)

VerbGehen == IndexEntry(sVerb, wGehen, idGehen)
\* The same verb after the index was rebuilt under another identifier.
VerbGehenRenumbered == IndexEntry(sVerb, wGehen, idGehen2)
VerbZuGehen == IndexEntry(sVerb, wZuGehenIndexed, idZuGehen)
NounGehen == IndexEntry(sNoun, wGehen, idNounGehen)
\* The entry the index builder writes for a verb item without text.
VerbNoText == IndexEntry(sVerb, <<>>, idVerbUnknown)

IndexEntryValues == { VerbGehen, VerbZuGehen, NounGehen, VerbNoText }

MissingIndex == [exists |-> FALSE, items |-> <<>>]
LinkerIndex(items) == [exists |-> TRUE, items |-> items]
IndexDocs == { LinkerIndex(items) : items \in SeqsUpTo(IndexEntryValues, MaxEntries) }
             \cup { MissingIndex }

\* The indexes the second run may find in place of the first one's.
ChangedIndexes == { LinkerIndex(<< VerbGehenRenumbered >>), LinkerIndex(<<>>) }

TabLinkedEarlier == [TabExtracted EXCEPT !.table_id = TableIdOf(7), !.lemma_lex_id = idOld]
TabZuGehen == [TabExtracted EXCEPT !.table_id = TableIdOf(8), !.lemma_guess = wZuGehen]

LinkTableValues == { TabExtracted, TabLinkedEarlier, TabZuGehen, TabNoLemma }
LinkTableDocs == SeqsUpTo(LinkTableValues, MaxTables)

(***************************************************************************)
(* The linker's steps.                                                     *)
(***************************************************************************)
LinkerInit ==
    /\ lindex \in IndexDocs
    /\ lindex0 = lindex
    /\ tfile \in LinkTableDocs
    /\ tfile0 = tfile
    /\ lpc = "start"
    /\ verb_lookup = <<>>
    /\ lstate = [tables |-> <<>>, i |-> 0, updated |-> 0, missing |-> <<>>]
    /\ lrc = -1
    /\ lruns = 0
    /\ lfirst = NoOutput

\* Lines 45-59: without index the run ends with status 2, otherwise the
\* lookup is built and the table document is loaded.
LinkStart ==
    /\ lpc = "start"
    /\ IF ~lindex.exists
       THEN /\ lpc' = "done"
            /\ lrc' = 2
            /\ lruns' = lruns + 1
            /\ lfirst' = IF lruns = 0 THEN [ended |-> TRUE, tables |-> tfile] ELSE lfirst
            /\ UNCHANGED <<verb_lookup, lstate>>
       ELSE /\ lpc' = "loop"
            /\ verb_lookup' = build_verb_lookup(lindex.items, <<>>)
            /\ lstate' = [tables |-> tfile, i |-> 0, updated |-> 0, missing |-> <<>>]
            /\ UNCHANGED <<lrc, lruns, lfirst>>
    /\ UNCHANGED <<lindex, lindex0, tfile, tfile0>>
    /\ UNCHANGED <<bvars, vvars, xvars, dvars, pvars, gvars, cvars>>

\* Lines 61-76: one table of the loop.
LinkTable ==
    /\ lpc = "loop"
    /\ lstate.i < Len(lstate.tables)
    /\ lstate' = link_table(lstate, verb_lookup)
    /\ UNCHANGED <<lindex, lindex0, tfile, tfile0, lpc, verb_lookup, lrc, lruns, lfirst>>
    /\ UNCHANGED <<bvars, vvars, xvars, dvars, pvars, gvars, cvars>>

\* Lines 78-88: the table document is saved and the run ends with status 0.
LinkSave ==
    /\ lpc = "loop"
    /\ lstate.i = Len(lstate.tables)
    /\ tfile' = lstate.tables
    /\ lpc' = "done"
    /\ lrc' = 0
    /\ lruns' = lruns + 1
    /\ lfirst' = IF lruns = 0 THEN [ended |-> TRUE, tables |-> tfile'] ELSE lfirst
    /\ UNCHANGED <<lindex, lindex0, tfile0, verb_lookup, lstate>>
    /\ UNCHANGED <<bvars, vvars, xvars, dvars, pvars, gvars, cvars>>

\* The linker is run again, against the same index or against a changed one.
LinkAgain ==
    /\ lpc = "done"
    /\ lruns = 1
    /\ lindex' \in {lindex} \cup ChangedIndexes
    /\ lpc' = "start"
    /\ lrc' = -1
    /\ UNCHANGED <<lindex0, tfile, tfile0, verb_lookup, lstate, lruns, lfirst>>
    /\ UNCHANGED <<bvars, vvars, xvars, dvars, pvars, gvars, cvars>>

InitLinker ==
    /\ BuilderIdle /\ ValidatorIdle /\ ExtractorIdle /\ DedupeIdle /\ LinkerInit
    /\ AssignerIdle /\ RunIdle /\ CallIdle

NextLinker ==
    \/ LinkStart
    \/ LinkTable
    \/ LinkSave
    \/ LinkAgain

\* The linker run on a table document and an index, then run again.
SpecLinker == InitLinker /\ [][NextLinker]_vars

(***************************************************************************)
(* Properties of the linker.                                               *)
(***************************************************************************)
Linked(t) == t.lemma_lex_id # <<>>

\* C17: a table that carries a lemma_lex_id, from the start or set by the
\* first run, stays as it is, in memory and in the document, also under a
\* changed index; and a second run against the same index leaves the
\* document as the first run wrote it.
C17_LinkedTablesUntouched ==
    /\ Len(tfile) = Len(tfile0)
    /\ \A i \in 1..Len(tfile0) : Linked(tfile0[i]) => tfile[i] = tfile0[i]
    /\ \A i \in 1..Len(lstate.tables) : Linked(tfile0[i]) => lstate.tables[i] = tfile0[i]
    /\ lfirst.ended =>
          /\ \A i \in 1..Len(lfirst.tables) :
                 Linked(lfirst.tables[i]) => tfile[i] = lfirst.tables[i]
          /\ lruns >= 1 =>
                 \A i \in 1..Len(lstate.tables) :
                     Linked(lfirst.tables[i]) => lstate.tables[i] = lfirst.tables[i]
    /\ (lpc = "done" /\ lruns = 2 /\ lindex = lindex0) => tfile = lfirst.tables

\* The first run linked a table; the second run found an index that offers
\* another identifier for the same lemma and kept the link.
C17_Witness ==
    /\ lpc = "done"
    /\ lruns = 2
    /\ lindex0 = LinkerIndex(<< VerbGehen >>)
    /\ lindex = LinkerIndex(<< VerbGehenRenumbered >>)
    /\ tfile0 = << TabExtracted, TabLinkedEarlier >>
    /\ tfile[1].lemma_lex_id = idGehen
    /\ tfile[2].lemma_lex_id = idOld

\* Trim, whitespace collapse and lowercasing, as section 4.6 states them.
Normalized(s) == Lower(JoinSpace(Split(s)))

\* The index positions of the verb entries whose text equals the lemma after
\* normalization of both.
VerbMatches(lemma) ==
    { j \in 1..Len(lindex.items) :
        /\ lindex.items[j].category = sVerb
        /\ Normalized(lindex.items[j].text) = Normalized(lemma) }

RecordedMissing(label, table_id) ==
    \E m \in 1..Len(lstate.missing) : lstate.missing[m] = << label, table_id >>

\* C18: after a run, every table that lacked a lemma_lex_id carries one
\* exactly when some verb entry matches its lemma_guess after normalization;
\* the value is the lex_id of such an entry; a table left unlinked is
\* recorded as missing.
C18_LinkedIffVerbMatch ==
    (lpc = "done" /\ lruns = 1 /\ lrc = 0)
    => \A i \in 1..Len(tfile0) :
          ~Linked(tfile0[i]) =>
             /\ Linked(tfile[i]) <=> VerbMatches(tfile0[i].lemma_guess) # {}
             /\ Linked(tfile[i]) =>
                    \E j \in VerbMatches(tfile0[i].lemma_guess) :
                        tfile[i].lemma_lex_id = lindex.items[j].lex_id
             /\ ~Linked(tfile[i]) =>
                    \E m \in 1..Len(lstate.missing) :
                        lstate.missing[m][2] = tfile0[i].table_id

\* C18, amended: the same for the tables with a non-empty lemma_guess and the
\* verb entries with a non-empty text; a table without lemma_guess is never
\* linked and is recorded as missing under "__no_lemma__".
C18_LinkedIffVerbTextMatch ==
    (lpc = "done" /\ lruns = 1 /\ lrc = 0)
    => \A i \in 1..Len(tfile0) :
          ~Linked(tfile0[i]) =>
             LET lemma == tfile0[i].lemma_guess
                 hits == { j \in VerbMatches(lemma) : lindex.items[j].text # <<>> }
             IN  IF lemma = <<>>
                 THEN ~Linked(tfile[i]) /\ RecordedMissing(s__no_lemma__, tfile0[i].table_id)
                 ELSE /\ Linked(tfile[i]) <=> hits # {}
                      /\ Linked(tfile[i]) =>
                             \E j \in hits : tfile[i].lemma_lex_id = lindex.items[j].lex_id
                      /\ ~Linked(tfile[i]) => RecordedMissing(lemma, tfile0[i].table_id)

\* A lemma that matches a verb entry up to case, padding and inner whitespace
\* is linked to it; a lemma that matches a noun entry only and a table
\* without lemma are recorded as missing.
C18_Witness ==
    /\ lpc = "done"
    /\ lruns = 1
    /\ lindex = LinkerIndex(<< NounGehen, VerbZuGehen >>)
    /\ tfile0 = << TabZuGehen, TabExtracted, TabNoLemma >>
    /\ tfile[1].lemma_lex_id = idZuGehen
    /\ ~Linked(tfile[2])
    /\ lstate.missing = << << wGehen, TabExtracted.table_id >>,
                           << s__no_lemma__, TabNoLemma.table_id >> >>

(***************************************************************************)
(* make_lex_id and ensure_unique_id applied to a sequence of entries.      *)
(***************************************************************************)
\* Largest number of identifiers assigned in one run.
MaxUses == 3

wSchuhe == <<"S","c","h","u","h","e">>
tSchuhe == wSchuhe
tDieSchuhe == <<"d","i","e"," ">> \o wSchuhe
\* Capitalized article, two blanks, trailing blank.
tDieSchuhePadded == <<"D","i","e"," "," ">> \o wSchuhe \o <<" ">>
\* The article alone.
tDie == <<"d","i","e">>
\* An article and a remainder that normalizes to nothing.
tDieDash == <<"d","i","e"," ","-">>
tEmpty == <<>>

EntryTexts == { tSchuhe, tDieSchuhe, tDieSchuhePadded, tDie, tDieDash, tEmpty }
EntryCategories == { sNoun, sVerb }

idSchuheDie == sLEX \o sDot \o Upper(sNoun) \o sDot \o Upper(wSchuhe) \o sDot \o Upper(tDie)

\* The identifiers the partitions hold when the run starts.
ExistingIdSets == { {}, { idSchuheDie } }

AssignerInit ==
    /\ pexisting \in ExistingIdSets
    /\ pused = [ id \in pexisting |-> 1 ]
    /\ puses = <<>>

\* Lines 251-254 of main(): an entry without identifier gets
\* ensure_unique_id(make_lex_id(category, text), used_counts).
AssignId ==
    /\ Len(puses) < MaxUses
    /\ \E category \in EntryCategories, text \in EntryTexts :
          LET proposed == make_lex_id(category, text)
              r == ensure_unique_id(proposed, pused)
          IN  /\ pused' = r.used
              /\ puses' = Append(puses, [category |-> category, text |-> text,
                                         proposed |-> proposed, returned |-> r.id])
    /\ UNCHANGED pexisting
    /\ UNCHANGED <<bvars, vvars, xvars, fvars, dvars, lvars, gvars, cvars>>

InitAssigner ==
    /\ BuilderIdle /\ ValidatorIdle
    /\ ExtractorIdle /\ TablesFileIdle /\ DedupeIdle /\ LinkerIdle
    /\ AssignerInit /\ RunIdle /\ CallIdle

NextAssigner == AssignId

\* Identifier proposal and collision handling over the entries of one run.
SpecAssigner == InitAssigner /\ [][NextAssigner]_vars

(***************************************************************************)
(* Properties of identifier proposal and collision handling.               *)
(***************************************************************************)
\* How many of the first n uses proposed the identifier id.
UsesOf(id, n) == Cardinality({ m \in 1..n : puses[m].proposed = id })

\* C19: for a proposed identifier that no partition held at the start, the
\* first use returns it unchanged and the k-th use (k >= 2) returns it with
\* the suffix .k; two noun entries "die Schuhe" without prior identifiers
\* get LEX.NOUN.SCHUHE.DIE and LEX.NOUN.SCHUHE.DIE.2.
C19_SuffixCountsUses ==
    /\ \A n \in 1..Len(puses) :
          LET id == puses[n].proposed
              kth == UsesOf(id, n)
          IN  id \notin pexisting =>
                 puses[n].returned = IF kth = 1 THEN id ELSE id \o sDot \o DecStr(kth)
    /\ \A n \in 1..Len(puses) :
          (pexisting = {} /\ puses[n].category = sNoun /\ puses[n].text = tDieSchuhe)
          => /\ UsesOf(puses[n].proposed, n) = 1
                => puses[n].returned =
                     <<"L","E","X",".","N","O","U","N",".","S","C","H","U","H","E",".","D","I","E">>
             /\ UsesOf(puses[n].proposed, n) = 2
                => puses[n].returned =
                     <<"L","E","X",".","N","O","U","N",".","S","C","H","U","H","E",".","D","I","E",
                       ".","2">>

\* Three entries "die Schuhe" in a run that started without identifiers.
C19_Witness ==
    /\ pexisting = {}
    /\ Len(puses) = 3
    /\ \A n \in 1..3 : puses[n].category = sNoun /\ puses[n].text = tDieSchuhe
    /\ puses[1].returned = idSchuheDie
    /\ puses[2].returned = idSchuheDie \o <<".", "2">>
    /\ puses[3].returned = idSchuheDie \o <<".", "3">>

IsNounCategory(category) == Strip(Lower(category)) = sNoun

\* The first token of a text and what follows it.
FirstToken(text) == IF Split(text) = <<>> THEN <<>> ELSE Split(text)[1]
Remainder(text) ==
    LET t == LStripSet(text, {" ", "\t"})
    IN  SubSeq(t, Len(FirstToken(text)) + 1, Len(t))

\* The normalized text, or UNKNOWN when nothing is left of it.
CoreOf(text) == IF to_id_token(text) = <<>> THEN sUNKNOWN ELSE to_id_token(text)

sLEXNOUN == <<"L","E","X",".","N","O","U","N">>

\* C20: for the noun category the proposed identifier is LEX.NOUN.<core>
\* when the text has no leading article and LEX.NOUN.<core>.<ARTICLE> when
\* its first token is der, die or das, <core> being the normalized rest of
\* the text or UNKNOWN when nothing is left, the article alone included.
C20_NounIdByFirstToken ==
    \A n \in 1..Len(puses) :
        IsNounCategory(puses[n].category) =>
            LET text == puses[n].text
            IN  puses[n].proposed =
                    IF Lower(FirstToken(text)) \in ARTICLES
                    THEN sLEXNOUN \o sDot \o CoreOf(Remainder(text))
                                  \o sDot \o Upper(FirstToken(text))
                    ELSE sLEXNOUN \o sDot \o CoreOf(text)

\* C20, amended: der, die or das is a leading article only when another
\* token follows it; a text that is the article alone is its own core.
C20_NounIdByArticleAndCore ==
    \A n \in 1..Len(puses) :
        IsNounCategory(puses[n].category) =>
            LET text == puses[n].text
            IN  puses[n].proposed =
                    IF Lower(FirstToken(text)) \in ARTICLES /\ Len(Split(text)) >= 2
                    THEN sLEXNOUN \o sDot \o CoreOf(Remainder(text))
                                  \o sDot \o Upper(FirstToken(text))
                    ELSE sLEXNOUN \o sDot \o CoreOf(text)

\* An article before a core, an article before a rest that normalizes to
\* nothing, and the article alone.
C20_Witness ==
    /\ Len(puses) = 3
    /\ \A n \in 1..3 : puses[n].category = sNoun
    /\ puses[1].text = tDieSchuhePadded /\ puses[1].proposed = idSchuheDie
    /\ puses[2].text = tDieDash
    /\ puses[2].proposed = sLEXNOUN \o sDot \o sUNKNOWN \o sDot \o Upper(tDie)
    /\ puses[3].text = tDie /\ puses[3].proposed = sLEXNOUN \o sDot \o Upper(tDie)

(***************************************************************************)
(* to_id_token() called on its own, on every text over a small alphabet.   *)
(***************************************************************************)
\* Longest text handed to to_id_token.
MaxTextLen == 3

\* A lower-case and an upper-case letter, a digit, an umlaut, the sharp s,
\* the separator itself, a hyphen, and both kinds of whitespace.
TokenAlphabet == {"a", "Z", "7", "ä", "ß", ".", "-", " ", "\t"}

TokenTexts == SeqsUpTo(TokenAlphabet, MaxTextLen)

Returned(v) == [done |-> TRUE, value |-> v]

TokenInit ==
    /\ call_arg \in TokenTexts
    /\ call_ret = NotCalled

CallToIdToken ==
    /\ call_ret = NotCalled
    /\ call_ret' = Returned(to_id_token(call_arg))
    /\ UNCHANGED call_arg
    /\ UNCHANGED <<bvars, vvars, xvars, fvars, dvars, lvars, pvars, gvars>>

InitToken ==
    /\ BuilderIdle /\ ValidatorIdle
    /\ ExtractorIdle /\ TablesFileIdle /\ DedupeIdle /\ LinkerIdle /\ AssignerIdle
    /\ RunIdle /\ TokenInit

NextToken == CallToIdToken

\* to_id_token() on one text.
SpecToken == InitToken /\ [][NextToken]_vars

(***************************************************************************)
(* Properties of to_id_token().                                            *)
(***************************************************************************)
\* A letter of the model's characters (str.isalpha) or a digit.
IsLetterOrDigit(c) ==
    \/ IndexOf(LowerLetters, c) > 0 \/ IndexOf(UpperLetters, c) > 0
    \/ IndexOf(DigitChars, c) > 0
    \/ c \in {"ä", "ö", "ü", "Ä", "Ö", "Ü", "ß"}

CanonicalToken(t) ==
    /\ \A i \in 1..Len(t) : t[i] = "." \/ IsIdChar(t[i])
    /\ t # <<>> => t[1] # "." /\ t[Len(t)] # "."
    /\ \A i \in 1..(Len(t) - 1) : ~(t[i] = "." /\ t[i + 1] = ".")

\* C21: for every text the normalizer returns a token made of A-Z, 0-9 and
\* "." only, with no "." at either end and no two "." side by side, and the
\* token is empty when the text is empty or holds no letter or digit.
C21_TokenIsCanonical ==
    call_ret.done
    => /\ CanonicalToken(call_ret.value)
       /\ (\A i \in 1..Len(call_arg) : ~IsLetterOrDigit(call_arg[i]))
          => call_ret.value = <<>>

\* " ä." gives "AE": the blank is stripped, the umlaut is spelled out and the
\* "." left at the end is removed.
C21_Witness ==
    /\ call_arg = <<" ", "ä", ".">>
    /\ call_ret.done
    /\ call_ret.value = <<"A", "E">>

(***************************************************************************)
(* guess_lemma() called on its own, on every small table.                  *)
(***************************************************************************)
\* Largest number of slots of a table handed to guess_lemma.
MaxSlots == 3

LemmaSlots == {sWir, sSieFormal, sIch, sDu}

wGehenAus == wGehen \o <<" ", "a", "u", "s">>
\* No form, a single token, two tokens, and a marker of each irregular verb
\* (the first one capitalized).
LemmaForms == { <<>>, wGehen, wGehenAus, <<"I","s","t">>, <<"h","a","t">>,
                <<"w","i","r","d">> }

\* The dicts with up to MaxSlots distinct keys, in every insertion order.
LemmaTables ==
    { t \in SeqsUpTo(LemmaSlots \X LemmaForms, MaxSlots) :
        \A i, j \in 1..Len(t) : t[i][1] = t[j][1] => i = j }

LemmaInit ==
    /\ call_arg \in LemmaTables
    /\ call_ret = NotCalled

CallGuessLemma ==
    /\ call_ret = NotCalled
    /\ call_ret' = Returned(guess_lemma(call_arg))
    /\ UNCHANGED call_arg
    /\ UNCHANGED <<bvars, vvars, xvars, fvars, dvars, lvars, pvars, gvars>>

InitLemma ==
    /\ BuilderIdle /\ ValidatorIdle
    /\ ExtractorIdle /\ TablesFileIdle /\ DedupeIdle /\ LinkerIdle /\ AssignerIdle
    /\ RunIdle /\ LemmaInit

NextLemma == CallGuessLemma

\* guess_lemma() on one table.
SpecLemma == InitLemma /\ [][NextLemma]_vars

(***************************************************************************)
(* Properties of guess_lemma().                                            *)
(***************************************************************************)
\* Some form of the table is, trimmed and in lower case, in the marker set.
HasMarker(t, markers) == \E i \in 1..Len(t) : Lower(Strip(t[i][2])) \in markers

FormOf(t, key) == Strip(DictGet(t, key))
Filled(t, key) == DictHas(t, key) /\ FormOf(t, key) # <<>>
SingleToken(s) == Len(Split(s)) = 1

NonEmptyAt(t) == { i \in 1..Len(t) : Strip(t[i][2]) # <<>> }
FirstNonEmpty(t) ==
    IF NonEmptyAt(t) = {} THEN <<>>
    ELSE Strip(t[CHOOSE i \in NonEmptyAt(t) : \A j \in NonEmptyAt(t) : i <= j][2])

\* The rules of the sentence, in its order: <<applies, result>>.
LemmaRules(t) ==
    << <<HasMarker(t, MarkersSein), sSein>>,
       <<HasMarker(t, MarkersHaben), sHaben>>,
       <<HasMarker(t, MarkersWerden), sWerden>>,
       <<Filled(t, sWir) /\ SingleToken(FormOf(t, sWir)), FormOf(t, sWir)>>,
       <<Filled(t, sSieFormal) /\ SingleToken(FormOf(t, sSieFormal)), FormOf(t, sSieFormal)>>,
       <<Filled(t, sIch), FormOf(t, sIch)>>,
       <<NonEmptyAt(t) # {}, FirstNonEmpty(t)>>,
       <<TRUE, <<>> >> >>

FirstApplicable(rules) ==
    rules[CHOOSE i \in 1..Len(rules) : rules[i][1] /\ \A j \in 1..(i - 1) : ~rules[j][1]][2]

\* C25: guess_lemma returns what the first applicable rule gives: "sein",
\* "haben" or "werden" for a marker form, else the single-token wir form, else
\* the single-token Sie form, else the ich form, else the first non-empty form
\* in the order of the map, else the empty string.
C25_LemmaByFirstRule ==
    call_ret.done => call_ret.value = FirstApplicable(LemmaRules(call_arg))

\* The wir form has two tokens and comes first in the map, the Sie form is a
\* single token, and the ich form is filled: rule 3 gives the Sie form.
C25_Witness ==
    /\ call_arg = << <<sWir, wGehenAus>>, <<sIch, wGehenAus>>, <<sSieFormal, wGehen>> >>
    /\ call_ret.done
    /\ call_ret.value = wGehen

(***************************************************************************)
(* The index the builder makes of a verb partition, handed to the linker.  *)
(***************************************************************************)
sVerbCapital == <<"V","e","r","b">>
\* The category label of the partition document, as written in it.
PartitionCategories == { sVerb, <<" ">> \o sVerb \o <<" ">>, sVerbCapital, Upper(sVerb),
                         sNoun, sVerb \o <<"s">> }

wGehenCapital == <<"G","e","h","e","n">>
PartitionTexts == { wGehen, wGehenCapital \o <<" ">>, wZuGehenIndexed, <<>>, <<" ">> }

NewEntry(text) == [dict |-> TRUE, text |-> text, has_id |-> FALSE, lex_id |-> <<>>]

\* verbs.yaml with up to MaxEntries entries that have no identifier yet.
VerbPartitions ==
    { Mapping(TRUE, c, TRUE, [i \in 1..Len(ts) |-> NewEntry(ts[i])]) :
        c \in PartitionCategories, ts \in SeqsUpTo(PartitionTexts, MaxEntries) }

\* Lines 218-286 of the builder on the one partition: the sorted index items.
index_of_partition(doc) ==
    LET fd == << [fname |-> VERBS, data |-> doc] >>
        seed == [used |-> SeedUsedCounts(collect_all_existing_ids(fd)),
                 index |-> <<>>, assigned |-> <<>>, items |-> <<>>]
    IN  SortIndex(single_run(fd, 1, seed).index)

PipelineInit ==
    /\ call_arg \in VerbPartitions
    /\ call_ret = NotCalled
    /\ lindex = MissingIndex
    /\ lindex0 = lindex
    /\ tfile \in { <<>>, << TabExtracted >> }
    /\ tfile0 = tfile
    /\ lpc = "idle"
    /\ verb_lookup = <<>>
    /\ lstate = [tables |-> <<>>, i |-> 0, updated |-> 0, missing |-> <<>>]
    /\ lrc = -1
    /\ lruns = 0
    /\ lfirst = NoOutput

\* The builder writes index.yaml, the file the linker reads.
BuildIndex ==
    /\ lpc = "idle"
    /\ lindex' = LinkerIndex(index_of_partition(call_arg))
    /\ lindex0' = lindex'
    /\ lpc' = "start"
    /\ UNCHANGED <<tfile, tfile0, verb_lookup, lstate, lrc, lruns, lfirst>>
    /\ UNCHANGED <<bvars, vvars, xvars, dvars, pvars, gvars, cvars>>

InitPipeline ==
    /\ BuilderIdle /\ ValidatorIdle /\ ExtractorIdle /\ DedupeIdle /\ AssignerIdle
    /\ RunIdle /\ PipelineInit

NextPipeline ==
    \/ BuildIndex
    \/ LinkStart
    \/ LinkTable
    \/ LinkSave

\* The builder's index of a partition, then one run of the linker on it.
SpecPipeline == InitPipeline /\ [][NextPipeline]_vars

(***************************************************************************)
(* Properties of the builder and the linker together.                      *)
(***************************************************************************)
\* The category the ID assigner gives LEX.VERB identifiers to.
IsVerbCategory(category) == Lower(Strip(category)) = sVerb

LookupBuilt == lpc \in {"loop", "done"} /\ lindex.exists

\* C28: every item of the index of a partition whose category the ID assigner
\* takes for the verb category, with a non-empty text, has its normalized
\* text in the linker's verb lookup.
C28_VerbEntriesInLookup ==
    (LookupBuilt /\ IsVerbCategory(call_arg.category))
    => \A i \in 1..Len(lindex.items) :
           lindex.items[i].text # <<>>
           => DictHas(verb_lookup, Normalized(lindex.items[i].text))

====
